---- MODULE Spec2Model ----
(***************************************************************************)
(* Order / position lifecycle and fill-matching engine of                  *)
(* open_binancian_futures: models.py (Balance, Order, OrderList, Position, *)
(* PositionList, the books), runners.py (Backtesting) and strategy.py      *)
(* (the live account-update callbacks), exchange.py (the initial load).   *)
(*                                                                         *)
(* Numbers.  The program computes in floating point; the model computes in *)
(* integers of one money unit, 1/Cent of a cent, where Cent is a common    *)
(* multiple of 100 and of every leverage of the model, so that             *)
(* amount * price / leverage is exact.  Order prices are whole cents       *)
(* (multiples of Cent) per quantity unit, quantities are whole numbers of  *)
(* quantity units.  Sums and products are exact in the model; the one      *)
(* floating-point effect it keeps is the quotient truncated by int() in    *)
(* to_entry_quantity (see int_quotient).                                   *)
(***************************************************************************)
EXTENDS Integers, Sequences, FiniteSets, TLC

\* ------------------------------------------------------------- bounds
MaxPrice == 2          \* prices and bar highs/lows range over 1..MaxPrice cents
MaxQty == 2            \* order quantities range over 1..MaxQty
MaxBars == 3           \* bars of the active window of the backtest
MaxGtd == 1            \* good-till-dates range over 1..MaxGtd (bar times are 1..MaxBars)
MaxLeverage == 2       \* settings.leverage is at most MaxLeverage
MaxPlace == 1          \* orders one strategy invocation places at most
MaxOrders == 3         \* orders placed during one run at most
StartBalance == 10     \* settings.balance, in cents
MaxEvent == 1          \* entries of one ACCOUNT_UPDATE event (positions, balances)
FillMaxPrice == 3      \* prices of the fill-matrix specification
FillMaxBar == 4        \* bar highs/lows of the fill-matrix specification: 0..FillMaxBar
MaxRawPrice == 300     \* prices given to to_entry_price: 0..MaxRawPrice thousandths
MaxSizingBalance == 40 \* balances given to to_entry_quantity: 0..MaxSizingBalance tens
MaxOrderId == 2        \* order ids (i, aid) of the user-stream events: 1..MaxOrderId
MaxOrderEvents == 3    \* order events the user stream delivers at most
MaxTasks == 2          \* candlestick tasks the market stream creates at most

RECURSIVE Factorial(_)
Factorial(n) == IF n <= 1 THEN 1 ELSE n * Factorial(n - 1)

\* money units per cent
Cent == 100 * Factorial(MaxLeverage)

\* the symbols the exchange reports events for; settings.symbols_list holds the
\* configured ones (default "BTCUSDT")
AllSymbols == {"BTCUSDT", "ETHUSDT"}
ConfiguredLists == {<<"BTCUSDT">>}
\* settings.leverage of the runs of Spec: one that does not divide every notional
Leverages == {MaxLeverage}
Range(seq) == {seq[k] : k \in 1..Len(seq)}

\* types.py
LIMIT == "LIMIT"
MARKET == "MARKET"
STOP_MARKET == "STOP_MARKET"
TAKE_PROFIT_MARKET == "TAKE_PROFIT_MARKET"
TRAILING_STOP_MARKET == "TRAILING_STOP_MARKET"
BUY == "BUY"
SELL == "SELL"
OrderTypes == {LIMIT, MARKET, STOP_MARKET, TAKE_PROFIT_MARKET}
AllOrderTypes == OrderTypes \cup {TRAILING_STOP_MARKET, "STOP", "TAKE_PROFIT", "LIQUIDATION"}
Sides == {BUY, SELL}
\* the types of the orders that close a position in _eval_orders
ExitTypes == {TAKE_PROFIT_MARKET, STOP_MARKET, MARKET}

Prices == {k * Cent : k \in 1..MaxPrice}
Quantities == 1..MaxQty
\* Optional[int]: <<>> is None, <<t>> is the value t
Gtds == {<<>>} \cup {<<t>> : t \in 1..MaxGtd}
\* (high, low) of a candle: low <= high
Bars == {b \in [high : Prices, low : Prices] : b.low <= b.high}
NoBar == [high |-> 0, low |-> 0]

VARIABLES
    mode,          \* "backtest" (Backtesting), "live" (LiveTrading), or a unit specification
    lock,          \* Strategy.lock: None, or the asyncio.Lock of live trading
    tasks,         \* the candlestick tasks _market_stream_handler has created
    realized_profit, \* Strategy._realized_profit: symbol -> profit accumulated over fill events
    settings,      \* GlobalSettings: leverage, symbols_list, balance, size, the bracket ratios
    filters,       \* ExchangeInfo.filters: symbol -> Filter
    request,       \* the call to Balance / ExchangeInfo under way: its name and arguments
    result,        \* what the call returned, or the exception it raised
    balance,       \* Balance._balance, in money units
    orders,        \* OrderBook: symbol -> OrderList.orders
    positions,     \* PositionBook: symbol -> PositionList.positions
    test_results,  \* Backtesting.test_results: symbol -> BacktestingResult
    next_id,       \* orders placed so far (uuid4 of open_order: a fresh id each call)
    pc,            \* position of the backtest loop
    i,             \* bar of the loop, 1..MaxBars
    s,             \* index of the symbol of the loop in SymbolsList
    bar,           \* (high, low) of the current candle
    filled         \* rest of the list _eval_orders iterates over

vars == <<mode, lock, tasks, realized_profit, settings, filters, request, result, balance, orders, positions, test_results, next_id, pc, i, s, bar, filled>>

\* ------------------------------------------------------------- GlobalSettings
\* constants.py: size 0.05 as the fraction 1/20; stop_loss_ratio 0.05 and
\* effective_take_profit_ratio (twice the stop-loss ratio) in hundredths
GlobalSettings(leverage, symbols_list, raw_balance) ==
    [leverage |-> leverage, symbols_list |-> symbols_list, balance |-> raw_balance,
     size |-> <<1, 20>>, stop_loss_ratio |-> 5, take_profit_ratio |-> 10]

\* no call to Balance / ExchangeInfo is under way
NoCall == <<>>

\* Strategy.lock is None (StrategyContext.lock, until _run_async sets it)
NoLock == <<>>

\* ------------------------------------------------------------- Balance
\* Balance.__init__: math.floor(balance * 100) / 100
Balance(raw) == (raw \div Cent) * Cent

\* add_pnl flooring the sum to whole cents
add_pnl_floor(b, pnl) == Balance(b + pnl)

\* Balance.add_pnl
add_pnl(b, pnl) == b + pnl

\* calculate_quantity without the leverage
calculate_quantity_unleveraged(b, entry_price) ==
    [b |-> b, m |-> settings.size[1], d |-> settings.size[2] * entry_price]

\* Balance.calculate_quantity: balance * size * leverage / entry_price, held as the
\* fraction (b * m) / d; settings.size is the fraction size[1] / size[2]
calculate_quantity(b, entry_price) ==
    [b |-> b, m |-> settings.size[1] * settings.leverage, d |-> settings.size[2] * entry_price]

\* ------------------------------------------------------------- Order
is_type(order, types) == order.type \in types

\* Order.is_expired; time is int(time.timestamp() * 1000)
is_expired(order, time) ==
    IF order.gtd # <<>> /\ order.gtd[1] # 0 THEN order.gtd[1] < time ELSE FALSE

\* is_filled with the LIMIT comparisons made strict
is_filled_strict_limit(order, high, low) ==
    IF is_type(order, {MARKET}) THEN TRUE
    ELSE IF is_type(order, {LIMIT})
        THEN (IF order.side = BUY THEN order.price > low ELSE order.price < high)
    ELSE IF is_type(order, {TAKE_PROFIT_MARKET})
        THEN (IF order.side = SELL THEN order.price <= high ELSE order.price >= low)
    ELSE IF is_type(order, {STOP_MARKET})
        THEN (IF order.side = SELL THEN order.price >= low ELSE order.price <= high)
    ELSE FALSE

\* is_filled with the stop rule taken from the take-profit rule
is_filled_stop_as_take_profit(order, high, low) ==
    IF is_type(order, {MARKET}) THEN TRUE
    ELSE IF is_type(order, {LIMIT})
        THEN (IF order.side = BUY THEN order.price >= low ELSE order.price <= high)
    ELSE IF is_type(order, {TAKE_PROFIT_MARKET, STOP_MARKET})
        THEN (IF order.side = SELL THEN order.price <= high ELSE order.price >= low)
    ELSE FALSE

\* Order.is_filled
is_filled(order, high, low) ==
    IF is_type(order, {MARKET}) THEN TRUE
    ELSE IF is_type(order, {LIMIT})
        THEN (IF order.side = BUY THEN order.price >= low ELSE order.price <= high)
    ELSE IF is_type(order, {TAKE_PROFIT_MARKET})
        THEN (IF order.side = SELL THEN order.price <= high ELSE order.price >= low)
    ELSE IF is_type(order, {STOP_MARKET})
        THEN (IF order.side = SELL THEN order.price >= low ELSE order.price <= high)
    ELSE FALSE

\* ------------------------------------------------------------- OrderList
\* OrderList.remove_by_id
remove_by_id(list, id) == SelectSeq(list, LAMBDA o : o.order_id # id)

\* OrderList.find_by_type: <<>> is None, <<o>> the first order of the type
find_by_type(list, type) ==
    LET found == SelectSeq(list, LAMBDA o : o.type = type)
    IN IF found = <<>> THEN <<>> ELSE <<Head(found)>>

\* OrderList.open_order
open_order(list, symbol, id, p) ==
    Append(list, [symbol |-> symbol, order_id |-> id, type |-> p.type, side |-> p.side,
                  price |-> p.price, quantity |-> p.quantity, gtd |-> p.gtd])

\* book[key] := list, through OrderBook.__getitem__ / PositionBook.__getitem__:
\* a missing key is created
BookSet(book, key, list) ==
    [k \in DOMAIN book \cup {key} |-> IF k = key THEN list ELSE book[k]]

\* ------------------------------------------------------------- Position
Abs(x) == IF x < 0 THEN -x ELSE x

\* Position(...) with __post_init__
Position(symbol, price, amount, side, lev, bep) ==
    [symbol |-> symbol, price |-> price, amount |-> Abs(amount), side |-> side,
     leverage |-> lev, break_even_price |-> IF bep = <<>> THEN price ELSE bep[1]]

is_long(position) == position.side = BUY

\* initial_margin without the division by the leverage
initial_margin_notional(position) == position.amount * position.price

\* Position.initial_margin
initial_margin(position) == (position.amount * position.price) \div position.leverage

\* simple_pnl with the long formula for both sides
simple_pnl_long_only(position, target_price) ==
    (target_price - position.price) * position.amount

\* Position.simple_pnl
simple_pnl(position, target_price) ==
    LET price_diff == IF is_long(position) THEN target_price - position.price
                      ELSE position.price - target_price
    IN price_diff * position.amount

\* Position.pnl_backtest of the earlier backtest (app/core/position): the
\* magnitude of the price move, positive for a TAKE_PROFIT_MARKET order and
\* negative for any other
pnl_backtest(position, filled_order) ==
    LET pnl == Abs(position.price - filled_order.price) * position.amount
    IN IF filled_order.type = TAKE_PROFIT_MARKET THEN pnl ELSE -pnl

\* ------------------------------------------------------------- BacktestingResult
NewResult == [hit_count |-> [d \in Sides |-> 0], win_count |-> [d \in Sides |-> 0],
              trade_count |-> [d \in Sides |-> 0], profit |-> 0, loss |-> 0]

increment_hit_count(r, side) == [r EXCEPT !.hit_count[side] = @ + 1]

\* increment_trade_count counting every trade as a win
increment_trade_count_always_win(r, side, is_win) ==
    [r EXCEPT !.trade_count[side] = @ + 1, !.win_count[side] = @ + 1]

increment_trade_count(r, side, is_win) ==
    [r EXCEPT !.trade_count[side] = @ + 1,
              !.win_count[side] = IF is_win THEN @ + 1 ELSE @]

increase_pnl(r, pnl) ==
    IF pnl > 0 THEN [r EXCEPT !.profit = @ + pnl] ELSE [r EXCEPT !.loss = @ + pnl]

\* ------------------------------------------------------------- ExchangeInfo
\* A decimal number (a quantity; a price or a tick size given to the rounding
\* functions) is a whole number of units of 10^-Digits.
Digits == 3

RECURSIVE Pow10(_)
Pow10(n) == IF n <= 0 THEN 1 ELSE 10 * Pow10(n - 1)

RECURSIVE trailing_zeros(_, _)
\* zero decimals at the end of num, among its n last ones
trailing_zeros(num, n) ==
    IF n = 0 \/ num % 10 # 0 THEN 0 ELSE 1 + trailing_zeros(num \div 10, n - 1)

\* utils.decimal_places: the decimals of str(num); a float prints with one decimal
\* at least ("1.0")
decimal_places(num) ==
    LET d == Digits - trailing_zeros(num, Digits) IN IF d < 1 THEN 1 ELSE d

\* the builtin round(value, decimals): the closest multiple of 10^-decimals; up says
\* which way a value halfway between two multiples goes (that is decided by the
\* binary value of the float, which lies on either side of the decimal one)
round(value, decimals, up) ==
    LET u == Pow10(Digits - decimals)
        lo == (value \div u) * u
    IN IF 2 * (value - lo) < u THEN lo
       ELSE IF 2 * (value - lo) > u THEN lo + u
       ELSE IF up THEN lo + u ELSE lo

\* Filter of the runs that place orders of any price and quantity: prices in whole
\* cents, quantities in whole units, no least notional
DefaultFilter == [tick_size |-> Cent, step_size |-> 1, min_notional |-> 0]

\* ExchangeInfo._round_to_precision
round_to_precision(value, reference, up) ==
    LET decimals == decimal_places(reference)
    IN IF decimals = decimal_places(value) THEN value ELSE round(value, decimals, up)

\* what a call gives back: the value it returns or the exception it raises
Return(v) == [value |-> v]
Raise(e) == [raised |-> e]
Returned(r) == "value" \in DOMAIN r

\* Filter.from_binance, on the filters of one symbol: fs holds the tickSize,
\* stepSize and notional the response carries (<<>> where it carries none)
from_binance(fs) ==
    [tick_size |-> IF fs.tick_size = <<>> THEN 0 ELSE fs.tick_size[1],
     step_size |-> IF fs.step_size = <<>> THEN 0 ELSE fs.step_size[1],
     min_notional |-> IF fs.notional = <<>> THEN 0 ELSE fs.notional[1]]

\* ExchangeInfo.__init__: items is the set of the symbols of the response, each
\* with its filters (<<>>: none)
ExchangeInfo(items) ==
    [sym \in {item.symbol : item \in {it \in items : it.filters # <<>>}} |->
        from_binance((CHOOSE item \in items : item.symbol = sym /\ item.filters # <<>>).filters)]

\* _get_filter returning a filter without tick, step or least notional for a
\* symbol that has none
get_filter_default(symbol) ==
    IF symbol \in DOMAIN filters THEN Return(filters[symbol])
    ELSE Return([tick_size |-> 0, step_size |-> 1, min_notional |-> 0])

\* ExchangeInfo._get_filter
get_filter(symbol) ==
    IF symbol \in DOMAIN filters THEN Return(filters[symbol]) ELSE Raise("KeyError")

\* ExchangeInfo.to_entry_price
to_entry_price(symbol, initial_price, up) ==
    LET f == get_filter(symbol)
    IN IF ~Returned(f) THEN f
       ELSE Return(round_to_precision(initial_price, f.value.tick_size, up))

\* int(initial_quantity / f.step_size), initial_quantity the fraction (b * m) / d.
\* The quotient is a float: when it is a whole number k in exact arithmetic, the
\* float is k or the float just below k (0.3 / 0.1 = 2.9999999999999996), and int()
\* of that is k - 1; inexact says which.
int_quotient(x, step_size, inexact) ==
    LET c == x.d * step_size
        rest == (x.b % c) * x.m
        k == (x.b \div c) * x.m + rest \div c
    IN IF rest % c = 0 /\ inexact /\ k > 0 THEN k - 1 ELSE k

\* ExchangeInfo._calculate_notional
calculate_notional(entry_quantity, entry_price) == entry_quantity * entry_price

\* ExchangeInfo._is_notional_enough with > for >=
is_notional_enough_strict(symbol, entry_quantity, entry_price) ==
    calculate_notional(entry_quantity, entry_price) > get_filter(symbol).value.min_notional

\* ExchangeInfo._is_notional_enough
is_notional_enough(symbol, entry_quantity, entry_price) ==
    calculate_notional(entry_quantity, entry_price) >= get_filter(symbol).value.min_notional

\* ExchangeInfo.to_entry_quantity; the divisions by entry_price (in
\* calculate_quantity) and by f.step_size raise ZeroDivisionError
to_entry_quantity(symbol, entry_price, b, inexact) ==
    LET f == get_filter(symbol)
    IN IF ~Returned(f) THEN f
       ELSE IF entry_price = 0 \/ f.value.step_size = 0 THEN Raise("ZeroDivisionError")
       ELSE LET decimals == decimal_places(f.value.step_size)
                initial_quantity == calculate_quantity(b, entry_price)
                \* a multiple of step_size is not halfway between two multiples of
                \* 10^-decimals
                entry_quantity ==
                    round(int_quotient(initial_quantity, f.value.step_size, inexact) * f.value.step_size,
                          decimals, FALSE)
            IN IF is_notional_enough(symbol, entry_quantity, entry_price)
               THEN Return(entry_quantity) ELSE Return(0)

\* the builtin round on the quotient num / den of two whole numbers that is not a
\* whole number of units
round_fraction(num, den, decimals, up) ==
    LET u == Pow10(Digits - decimals)
        lo == (num \div (den * u)) * u
    IN IF 2 * (num - lo * den) < u * den THEN lo
       ELSE IF 2 * (num - lo * den) > u * den THEN lo + u
       ELSE IF up THEN lo + u ELSE lo

\* Strategy.calculate_stop_price; ratio is in hundredths, so that
\* entry_price * factor is the quotient num / den.  A product with more decimals
\* than Digits has not the decimals of a tick size, and to_entry_price rounds it.
calculate_stop_price(symbol, entry_price, order_type, stop_side, ratio, up) ==
    LET sl_orders == {STOP_MARKET, "STOP"}
        tp_orders == {TAKE_PROFIT_MARKET, "TAKE_PROFIT"}
        should_decrease_price ==
            \/ order_type \in sl_orders /\ stop_side = SELL
            \/ order_type \in tp_orders /\ stop_side = BUY
        den == 100 * settings.leverage
        num == entry_price * (IF should_decrease_price THEN den - ratio ELSE den + ratio)
        f == get_filter(symbol)
    IN IF num % den = 0 THEN to_entry_price(symbol, num \div den, up)
       ELSE IF ~Returned(f) THEN f
       ELSE Return(round_fraction(num, den, decimal_places(f.value.tick_size), up))

\* ------------------------------------------------------------- Backtesting
\* the symbol of the loop
Sym == settings.symbols_list[s]

\* int(time.timestamp() * 1000) of the Open_time of bar k: bars are one time unit apart
BarTime(k) == k

\* what a strategy passes to OrderList.open_order
OrderParams == [type : OrderTypes, side : Sides, price : Prices, quantity : Quantities, gtd : Gtds]
\* the same in the runs over several symbols: entry and exit orders of one
\* quantity that do not expire
PortfolioParams ==
    [type : {LIMIT, STOP_MARKET, TAKE_PROFIT_MARKET}, side : Sides, price : Prices, quantity : {1}, gtd : {<<>>}]
\* the orders of a strategy that sizes them as Example.run_backtest does: the
\* quantity is exchange_info.to_entry_quantity(symbol, entry_price, balance) on the
\* balance of the moment, and no order is placed when that is 0
SizedParams ==
    {p \in {[type |-> type, side |-> side, price |-> price, gtd |-> <<>>,
             quantity |-> to_entry_quantity(settings.symbols_list[s], price, balance, inexact).value] :
                type \in {LIMIT, STOP_MARKET}, side \in Sides, price \in Prices, inexact \in BOOLEAN} :
        p.quantity # 0}
\* the orders the strategy of the run chooses from
Placeable ==
    IF mode = "backtest_sized" THEN SizedParams
    ELSE IF Len(settings.symbols_list) > 1 THEN PortfolioParams ELSE OrderParams

RECURSIVE open_orders(_, _, _, _)
\* successive OrderList.open_order calls of one strategy invocation, ids id+1, id+2, ...
open_orders(list, symbol, id, ps) ==
    IF ps = <<>> THEN list
    ELSE open_orders(open_order(list, symbol, id + 1, Head(ps)), symbol, id + 1, Tail(ps))

\* Backtesting.__init__
InitBacktest ==
    /\ mode = "backtest"
    /\ lock = NoLock
    /\ tasks = <<>>
    /\ \E leverage \in Leverages, symbols_list \in ConfiguredLists :
         settings = GlobalSettings(leverage, symbols_list, StartBalance * Cent + Cent - 1)
    /\ filters = [sym \in Range(settings.symbols_list) |-> DefaultFilter]
    /\ request = NoCall
    /\ result = NoCall
    /\ balance = Balance(settings.balance)
    /\ orders = [sym \in Range(settings.symbols_list) |-> <<>>]
    /\ positions = [sym \in Range(settings.symbols_list) |-> <<>>]
    /\ test_results = [sym \in Range(settings.symbols_list) |-> NewResult]
    /\ realized_profit = [sym \in Range(settings.symbols_list) |-> 0]
    /\ next_id = 0
    /\ pc = "strategy"
    /\ i = 1
    /\ s = 1
    /\ bar = NoBar
    /\ filled = <<>>

\* _run_backtest_loop, lines 403-406: the candle of (i, symbol) is read and the
\* strategy is invoked; a strategy places orders with OrderList.open_order
RunBacktest ==
    /\ pc = "strategy"
    /\ \E b \in Bars, n \in 0..MaxPlace :
         /\ next_id + n <= MaxOrders
         /\ \E ps \in [1..n -> Placeable] :
              /\ bar' = b
              /\ orders' = BookSet(orders, Sym, open_orders(orders[Sym], Sym, next_id, ps))
              /\ next_id' = next_id + n
    /\ pc' = "expire"
    /\ UNCHANGED <<mode, realized_profit, lock, tasks, settings, filters, request, result, balance, positions, test_results, i, s, filled>>

\* Backtesting._expire_orders, on the list of one symbol
expire_orders(list, time) ==
    LET order == find_by_type(list, LIMIT)
    IN IF order # <<>> /\ is_expired(order[1], time) THEN <<>> ELSE list

ExpireOrders ==
    /\ pc = "expire"
    /\ orders' = BookSet(orders, Sym, expire_orders(orders[Sym], BarTime(i)))
    /\ pc' = "eval"
    /\ UNCHANGED <<mode, realized_profit, lock, tasks, settings, filters, request, result, balance, positions, test_results, next_id, i, s, bar, filled>>

\* Backtesting._filled_orders
filled_orders(list, high, low) == SelectSeq(list, LAMBDA o : is_filled(o, high, low))

\* _eval_orders, line 436: the list the loop iterates over is built once
BeginEval ==
    /\ pc = "eval"
    /\ filled' = filled_orders(orders[Sym], bar.high, bar.low)
    /\ pc' = "loop"
    /\ UNCHANGED <<mode, realized_profit, lock, tasks, settings, filters, request, result, balance, orders, positions, test_results, next_id, i, s, bar>>

\* Backtesting._open_position
open_position(order) ==
    LET position == Position(order.symbol, order.price, order.quantity, order.side, settings.leverage, <<>>)
    IN /\ orders' = BookSet(orders, order.symbol, remove_by_id(orders[order.symbol], order.order_id))
       /\ positions' = BookSet(positions, order.symbol, <<position>>)
       /\ balance' = add_pnl(balance, -initial_margin(position))

\* _close_position crediting the pnl without the margin
close_position_pnl_only(position, order) ==
    LET pnl == simple_pnl(position, order.price)
    IN /\ balance' = add_pnl(balance, pnl)
       /\ positions' = BookSet(positions, order.symbol, <<>>)
       /\ orders' = BookSet(orders, order.symbol, <<>>)

\* Backtesting._close_position; the returned pnl is simple_pnl(position, order.price)
close_position(position, order) ==
    LET pnl == simple_pnl(position, order.price)
        margin == initial_margin(position)
    IN /\ balance' = add_pnl(balance, pnl + margin)
       /\ positions' = BookSet(positions, order.symbol, <<>>)
       /\ orders' = BookSet(orders, order.symbol, <<>>)

\* the loop of _eval_orders opening a position for every filled LIMIT order,
\* without the test that the symbol has none
EvalOrder_always_open ==
    /\ pc = "loop"
    /\ filled # <<>>
    /\ LET order == Head(filled)
           test_result == test_results[Sym]
       IN IF is_type(order, {LIMIT})
          THEN /\ open_position(order)
               /\ test_results' = [test_results EXCEPT ![Sym] = increment_hit_count(test_result, order.side)]
               /\ filled' = Tail(filled)
          ELSE IF positions[Sym] # <<>> /\ is_type(order, {TAKE_PROFIT_MARKET, STOP_MARKET, MARKET})
          THEN LET position == Head(positions[Sym])
                   pnl == simple_pnl(position, order.price)
               IN /\ close_position(position, order)
                  /\ test_results' = [test_results EXCEPT ![Sym] =
                        increment_trade_count(increase_pnl(test_result, pnl), position.side, pnl > 0)]
                  /\ filled' = <<>>
          ELSE /\ filled' = Tail(filled)
               /\ UNCHANGED <<balance, orders, positions, test_results>>
    /\ UNCHANGED <<mode, realized_profit, lock, tasks, settings, filters, request, result, next_id, pc, i, s, bar>>

\* the loop of _eval_orders recording a trade for a closing order that is met
\* while the symbol has no position
EvalOrder_count_absent ==
    /\ pc = "loop"
    /\ filled # <<>>
    /\ LET order == Head(filled)
           test_result == test_results[Sym]
       IN IF positions[Sym] = <<>> /\ is_type(order, {LIMIT})
          THEN /\ open_position(order)
               /\ test_results' = [test_results EXCEPT ![Sym] = increment_hit_count(test_result, order.side)]
               /\ filled' = Tail(filled)
          ELSE IF positions[Sym] # <<>> /\ is_type(order, {TAKE_PROFIT_MARKET, STOP_MARKET, MARKET})
          THEN LET position == Head(positions[Sym])
                   pnl == simple_pnl(position, order.price)
               IN /\ close_position(position, order)
                  /\ test_results' = [test_results EXCEPT ![Sym] =
                        increment_trade_count(increase_pnl(test_result, pnl), position.side, pnl > 0)]
                  /\ filled' = <<>>
          ELSE IF is_type(order, {TAKE_PROFIT_MARKET, STOP_MARKET, MARKET})
          THEN /\ test_results' = [test_results EXCEPT ![Sym] =
                        increment_trade_count(test_result, order.side, FALSE)]
               /\ filled' = Tail(filled)
               /\ UNCHANGED <<balance, orders, positions>>
          ELSE /\ filled' = Tail(filled)
               /\ UNCHANGED <<balance, orders, positions, test_results>>
    /\ UNCHANGED <<mode, realized_profit, lock, tasks, settings, filters, request, result, next_id, pc, i, s, bar>>

\* the loop of _eval_orders going on with the next filled order after a close
EvalOrder_no_return ==
    /\ pc = "loop"
    /\ filled # <<>>
    /\ LET order == Head(filled)
           test_result == test_results[Sym]
       IN IF positions[Sym] = <<>> /\ is_type(order, {LIMIT})
          THEN /\ open_position(order)
               /\ test_results' = [test_results EXCEPT ![Sym] = increment_hit_count(test_result, order.side)]
               /\ filled' = Tail(filled)
          ELSE IF positions[Sym] # <<>> /\ is_type(order, {TAKE_PROFIT_MARKET, STOP_MARKET, MARKET})
          THEN LET position == Head(positions[Sym])
                   pnl == simple_pnl(position, order.price)
               IN /\ close_position(position, order)
                  /\ test_results' = [test_results EXCEPT ![Sym] =
                        increment_trade_count(increase_pnl(test_result, pnl), position.side, pnl > 0)]
                  /\ filled' = Tail(filled)
          ELSE /\ filled' = Tail(filled)
               /\ UNCHANGED <<balance, orders, positions, test_results>>
    /\ UNCHANGED <<mode, realized_profit, lock, tasks, settings, filters, request, result, next_id, pc, i, s, bar>>

\* one iteration of the loop of _eval_orders
EvalOrder ==
    /\ pc = "loop"
    /\ filled # <<>>
    /\ LET order == Head(filled)
           test_result == test_results[Sym]
       IN IF positions[Sym] = <<>> /\ is_type(order, {LIMIT})
          THEN /\ open_position(order)
               /\ test_results' = [test_results EXCEPT ![Sym] = increment_hit_count(test_result, order.side)]
               /\ filled' = Tail(filled)
          ELSE IF positions[Sym] # <<>> /\ is_type(order, {TAKE_PROFIT_MARKET, STOP_MARKET, MARKET})
          THEN LET position == Head(positions[Sym])
                   pnl == simple_pnl(position, order.price)
               IN /\ close_position(position, order)
                  /\ test_results' = [test_results EXCEPT ![Sym] =
                        increment_trade_count(increase_pnl(test_result, pnl), position.side, pnl > 0)]
                  /\ filled' = <<>>
          ELSE /\ filled' = Tail(filled)
               /\ UNCHANGED <<balance, orders, positions, test_results>>
    /\ UNCHANGED <<mode, realized_profit, lock, tasks, settings, filters, request, result, next_id, pc, i, s, bar>>

\* the end of _eval_orders and the loop headers of _run_backtest_loop
EndEval ==
    /\ pc = "loop"
    /\ filled = <<>>
    /\ bar' = NoBar
    /\ IF s < Len(settings.symbols_list) THEN s' = s + 1 /\ i' = i /\ pc' = "strategy"
       ELSE IF i < MaxBars THEN s' = 1 /\ i' = i + 1 /\ pc' = "strategy"
       ELSE s' = 1 /\ i' = i /\ pc' = "flush"
    /\ UNCHANGED <<mode, realized_profit, lock, tasks, settings, filters, request, result, balance, orders, positions, test_results, next_id, filled>>

RECURSIVE margins(_)
\* the margins _flush_position adds, one add_pnl per position
margins(list) == IF list = <<>> THEN 0 ELSE initial_margin(Head(list)) + margins(Tail(list))

\* _flush_position returning the margin without clearing the position
FlushPosition_keep ==
    /\ pc = "flush"
    /\ balance' = add_pnl(balance, margins(positions[Sym]))
    /\ orders' = BookSet(orders, Sym, <<>>)
    /\ IF s < Len(settings.symbols_list) THEN s' = s + 1 /\ pc' = pc ELSE s' = s /\ pc' = "done"
    /\ UNCHANGED <<mode, realized_profit, lock, tasks, settings, filters, request, result, positions, test_results, next_id, i, bar, filled>>

\* Backtesting._flush_position of the symbol of the loop
FlushPosition ==
    /\ pc = "flush"
    /\ balance' = add_pnl(balance, margins(positions[Sym]))
    /\ positions' = BookSet(positions, Sym, <<>>)
    /\ orders' = BookSet(orders, Sym, <<>>)
    /\ IF s < Len(settings.symbols_list) THEN s' = s + 1 /\ pc' = pc ELSE s' = s /\ pc' = "done"
    /\ UNCHANGED <<mode, realized_profit, lock, tasks, settings, filters, request, result, test_results, next_id, i, bar, filled>>

NextBacktest == RunBacktest \/ ExpireOrders \/ BeginEval \/ EvalOrder \/ EndEval \/ FlushPosition

\* ------------------------------------------------------------- LiveTrading
SeqsUpTo(S, n) == UNION {[1..k -> S] : k \in 0..n}

\* raw balances the exchange reports (available_balance, cw): whole cents or not
RawBalances == {c * Cent + r : c \in {0, StartBalance}, r \in {0, Cent - 1}}

\* AccountUpdateAPInner: s, ep, pa (signed), bep
PositionDatas == [s : AllSymbols, ep : {0} \cup Prices, pa : (-MaxQty)..MaxQty, bep : {0} \cup Prices]

\* AccountUpdateABInner: a, cw
BalanceDatas == [a : {"USDT", "BNB"}, cw : RawBalances]

\* exchange.py _create_position_from_response: <<>> is None
create_position_from_response(item, symbol, lev) ==
    IF item.ep = 0 \/ item.pa = 0 THEN <<>>
    ELSE <<Position(symbol, item.ep, item.pa, IF item.pa > 0 THEN BUY ELSE SELL, lev, <<item.bep>>)>>

RECURSIVE position_list(_, _, _)
\* the list comprehension of init_positions
position_list(items, symbol, lev) ==
    IF items = <<>> THEN <<>>
    ELSE create_position_from_response(Head(items), symbol, lev) \o position_list(Tail(items), symbol, lev)

\* on_position_update without the test for a closed position
on_position_update_no_clear(book, data, lev) ==
    BookSet(book, data.s,
        <<Position(data.s, data.ep, data.pa, IF data.pa > 0 THEN BUY ELSE SELL, lev, <<data.bep>>)>>)

\* on_position_update adding the reported position to the list
on_position_update_extend(book, data, lev) ==
    IF data.ep = 0 \/ data.pa = 0 THEN BookSet(book, data.s, <<>>)
    ELSE BookSet(book, data.s,
            (IF data.s \in DOMAIN book THEN book[data.s] ELSE <<>>) \o
            <<Position(data.s, data.ep, data.pa, IF data.pa > 0 THEN BUY ELSE SELL, lev, <<data.bep>>)>>)

\* Strategy.on_position_update, on the position book
on_position_update(book, data, lev) ==
    IF data.ep = 0 \/ data.pa = 0 THEN BookSet(book, data.s, <<>>)
    ELSE BookSet(book, data.s,
            <<Position(data.s, data.ep, data.pa, IF data.pa > 0 THEN BUY ELSE SELL, lev, <<data.bep>>)>>)

\* Strategy.on_balance_update
on_balance_update(b, data) == IF data.a = "USDT" THEN Balance(data.cw) ELSE b

RECURSIVE on_position_updates(_, _, _)
on_position_updates(book, P, lev) ==
    IF P = <<>> THEN book
    ELSE on_position_updates(on_position_update(book, Head(P), lev), Tail(P), lev)

RECURSIVE on_balance_updates(_, _)
on_balance_updates(b, B) ==
    IF B = <<>> THEN b ELSE on_balance_updates(on_balance_update(b, Head(B)), Tail(B))

\* LiveTrading.__init__: init_balance, init_orders, init_positions.  In one-way
\* position mode position_information_v3 reports one entry per symbol.
InitLive ==
    /\ mode = "live"
    /\ lock = NoLock
    /\ tasks = <<>>
    /\ \E leverage \in Leverages, symbols_list \in ConfiguredLists :
         settings = GlobalSettings(leverage, symbols_list, StartBalance * Cent)
    /\ filters = [sym \in Range(settings.symbols_list) |-> DefaultFilter]
    /\ request = NoCall
    /\ result = NoCall
    /\ \E raw \in RawBalances : balance = Balance(raw)
    /\ orders = [sym \in Range(settings.symbols_list) |-> <<>>]
    /\ \E items \in [Range(settings.symbols_list) -> SeqsUpTo(PositionDatas, 1)] :
         positions = [sym \in Range(settings.symbols_list) |->
                         position_list(items[sym], sym, settings.leverage)]
    /\ test_results = <<>>
    /\ realized_profit = [sym \in Range(settings.symbols_list) |-> 0]
    /\ next_id = 0
    /\ pc = "live"
    /\ i = 0
    /\ s = 0
    /\ bar = NoBar
    /\ filled = <<>>

\* the positions an ACCOUNT_UPDATE reports: any, or (where candlestick tasks run)
\* a long position of the configured symbol and its closing
ReportedPositions ==
    IF mode = "live_sizing"
    THEN {[s |-> "BTCUSDT", ep |-> Cent, pa |-> 1, bep |-> Cent],
          [s |-> "BTCUSDT", ep |-> 0, pa |-> 0, bep |-> 0]}
    ELSE IF mode = "live_stream"
    THEN {[s |-> symbol, ep |-> ep, pa |-> ep \div Cent, bep |-> ep] : symbol \in AllSymbols, ep \in {0, Cent}}
    ELSE PositionDatas

\* what the user stream keeps of an ACCOUNT_UPDATE event it has handled (nothing
\* where the run does not follow the events of the stream)
AccountDelivered(P, B) ==
    request' = IF request = NoCall THEN request
               ELSE [request EXCEPT !.event = <<[source |-> "ACCOUNT_UPDATE", P |-> P, B |-> B]>>,
                                    !.handled = @ + 1,
                                    !.reported = <<>>]

\* Some candlestick task has begun a step and has reached neither an await that
\* suspends it nor its end: the event loop (one thread) runs nothing else, no
\* other task and no stream callback
Running == \E t \in 1..Len(tasks) : tasks[t].pc \in {"run", "locked", "sized", "placed"}

\* _handle_account_update called from any thread, whatever the event loop runs
HandleAccountUpdate_preempting ==
    /\ pc \in {"live", "user_stream"}
    /\ request # NoCall => request.handled < MaxOrderEvents
    /\ \E P \in SeqsUpTo(ReportedPositions, MaxEvent), B \in SeqsUpTo(BalanceDatas, MaxEvent) :
         /\ positions' = on_position_updates(positions, P, settings.leverage)
         /\ balance' = on_balance_updates(balance, B)
         /\ AccountDelivered(P, B)
    /\ UNCHANGED <<mode, realized_profit, lock, tasks, settings, filters, result, orders, test_results, next_id, pc, i, s, bar, filled>>

\* LiveTrading._handle_account_update, a callback of the user stream
HandleAccountUpdate ==
    /\ pc \in {"live", "user_stream"}
    /\ ~Running
    /\ request # NoCall => request.handled < MaxOrderEvents
    /\ \E P \in SeqsUpTo(ReportedPositions, MaxEvent), B \in SeqsUpTo(BalanceDatas, MaxEvent) :
         /\ positions' = on_position_updates(positions, P, settings.leverage)
         /\ balance' = on_balance_updates(balance, B)
         /\ AccountDelivered(P, B)
    /\ UNCHANGED <<mode, realized_profit, lock, tasks, settings, filters, result, orders, test_results, next_id, pc, i, s, bar, filled>>

\* ------------------------------------------------------------- LiveTrading: order events
ORDER_TRADE_UPDATE == "ORDER_TRADE_UPDATE"
ALGO_UPDATE == "ALGO_UPDATE"
\* types.py OrderStatus, AlgoStatus
OrderStatuses == {"NEW", "PARTIALLY_FILLED", "FILLED", "CANCELED", "EXPIRED", "EXPIRED_IN_MATCH"}
AlgoStatuses == {"NEW", "CANCELED", "TRIGGERING", "TRIGGERED", "FINISHED", "REJECTED", "EXPIRED"}

\* what an event carries of ot / o, S, p, sp / tp (Optional: <<>> is None; the
\* exchange sends "0" for a price an order type does not have, which is 0.0)
OrderEventShapes ==
    {[order_type |-> <<LIMIT>>, side |-> <<BUY>>, price |-> <<Cent>>, stop_price |-> <<0>>],
     [order_type |-> <<STOP_MARKET>>, side |-> <<SELL>>, price |-> <<0>>, stop_price |-> <<Cent>>],
     [order_type |-> <<MARKET>>, side |-> <<SELL>>, price |-> <<0>>, stop_price |-> <<0>>],
     [order_type |-> <<MARKET>>, side |-> <<BUY>>, price |-> <<>>, stop_price |-> <<>>],
     [order_type |-> <<>>, side |-> <<>>, price |-> <<>>, stop_price |-> <<>>]}

\* the ids of the exchange: order ids (i) and algo ids (aid) do not overlap
OrderIds(source) ==
    IF source = ORDER_TRADE_UPDATE THEN 1..MaxOrderId ELSE (MaxOrderId + 1)..(2 * MaxOrderId)

\* OrderEvent.from_order_trade_update / from_algo_update; curr_order_type is data.o
\* of an ORDER_TRADE_UPDATE (the type the order has now, ot the one it was placed
\* with); an ALGO_UPDATE has the one type data.o
OrderEvents ==
    {[source |-> source, symbol |-> symbol, order_id |-> order_id, status |-> status,
      order_type |-> shape.order_type, side |-> shape.side, price |-> shape.price,
      stop_price |-> shape.stop_price, curr_order_type |-> curr_order_type,
      realized_profit |-> <<>>] :
        source \in {ORDER_TRADE_UPDATE}, symbol \in AllSymbols,
        order_id \in OrderIds(ORDER_TRADE_UPDATE), status \in OrderStatuses,
        shape \in OrderEventShapes, curr_order_type \in {LIMIT, MARKET}}
    \cup
    {[source |-> source, symbol |-> symbol, order_id |-> order_id, status |-> status,
      order_type |-> shape.order_type, side |-> shape.side, price |-> shape.price,
      stop_price |-> shape.stop_price, curr_order_type |-> <<>>, realized_profit |-> <<>>] :
        source \in {ALGO_UPDATE}, symbol \in AllSymbols,
        order_id \in OrderIds(ALGO_UPDATE), status \in AlgoStatuses,
        shape \in OrderEventShapes}

\* the events of the runs that follow the fills of LIMIT orders and their realized
\* profit (rp; None where the event carries none or "0"), beside algo orders
FillEvents ==
    {[source |-> ORDER_TRADE_UPDATE, symbol |-> symbol, order_id |-> order_id, status |-> status,
      order_type |-> <<LIMIT>>, side |-> <<BUY>>, price |-> <<Cent>>, stop_price |-> <<0>>,
      curr_order_type |-> LIMIT, realized_profit |-> rp] :
        symbol \in AllSymbols, order_id \in OrderIds(ORDER_TRADE_UPDATE),
        status \in {"NEW", "PARTIALLY_FILLED", "FILLED"}, rp \in {<<>>, <<Cent>>}}
    \cup
    {[source |-> ALGO_UPDATE, symbol |-> symbol, order_id |-> order_id, status |-> status,
      order_type |-> <<STOP_MARKET>>, side |-> <<SELL>>, price |-> <<0>>, stop_price |-> <<Cent>>,
      curr_order_type |-> <<>>, realized_profit |-> <<>>] :
        symbol \in AllSymbols, order_id \in OrderIds(ALGO_UPDATE), status \in {"NEW", "TRIGGERED"}}

\* the events the user stream delivers in the run
StreamEvents == IF mode = "live_stream" THEN FillEvents ELSE OrderEvents

\* the float an Optional[float] gives to "x or ...": None and 0.0 are falsy
Truthy(x) == x # <<>> /\ x[1] # 0

\* OrderEvent.can_convert_to_order
can_convert_to_order(event) == event.order_type # <<>> /\ event.side # <<>>

\* to_order raising ValueError for an event without a price and a stop price
to_order_strict(event) ==
    IF event.order_type = <<>> \/ event.side = <<>> THEN Raise("ValueError")
    ELSE IF ~Truthy(event.price) /\ ~Truthy(event.stop_price) THEN Raise("ValueError")
    ELSE Return([symbol |-> event.symbol, order_id |-> event.order_id, type |-> event.order_type[1],
                 side |-> event.side[1],
                 price |-> IF Truthy(event.price) THEN event.price[1] ELSE event.stop_price[1],
                 quantity |-> 1, gtd |-> <<>>])

\* OrderEvent.to_order: price = self.price or self.stop_price or 0.0
to_order(event) ==
    IF event.order_type = <<>> \/ event.side = <<>> THEN Raise("ValueError")
    ELSE Return([symbol |-> event.symbol, order_id |-> event.order_id, type |-> event.order_type[1],
                 side |-> event.side[1],
                 price |-> IF Truthy(event.price) THEN event.price[1]
                           ELSE IF Truthy(event.stop_price) THEN event.stop_price[1] ELSE 0,
                 quantity |-> 1, gtd |-> <<>>])

\* book[key] through OrderBook.__getitem__: a missing key reads as an empty list
BookGet(book, key) == IF key \in DOMAIN book THEN book[key] ELSE <<>>

\* Strategy.on_new_order: the book it leaves, or the exception of to_order
on_new_order(book, event) ==
    IF can_convert_to_order(event)
    THEN LET order == to_order(event)
         IN IF Returned(order)
            THEN Return(BookSet(book, event.symbol, Append(BookGet(book, event.symbol), order.value)))
            ELSE order
    ELSE Return(book)

\* on_filled_order, on_triggered_algo, _handle_order_removal
on_removed_order(book, event) ==
    Return(BookSet(book, event.symbol, remove_by_id(BookGet(book, event.symbol), event.order_id)))

\* Strategy.accumulate_realized_profit
accumulate_realized_profit(acc, symbol, profit) == [acc EXCEPT ![symbol] = @ + profit]

\* event.realized_profit or 0.0
profit_of(event) == IF Truthy(event.realized_profit) THEN event.realized_profit[1] ELSE 0

\* _handle_order_trade_update on Strategy._realized_profit: the profit of a
\* PARTIALLY_FILLED or FILLED event of a configured symbol is accumulated, and
\* on_filled_order sets the accumulator of the symbol to 0.0
order_trade_update_profit(acc, event) ==
    IF event.symbol \in Range(settings.symbols_list)
       /\ event.status \in {"PARTIALLY_FILLED", "FILLED"}
    THEN LET added == accumulate_realized_profit(acc, event.symbol, profit_of(event))
         IN IF event.status = "FILLED" THEN [added EXCEPT ![event.symbol] = 0] ELSE added
    ELSE acc

\* the PNL on_filled_order logs and sends to the webhook (<<>>: the event is not
\* reported): realized_profit = self._realized_profit[event.symbol]
reported_profit(acc, event) ==
    IF event.symbol \in Range(settings.symbols_list) /\ event.status = "FILLED"
    THEN <<accumulate_realized_profit(acc, event.symbol, profit_of(event))[event.symbol]>>
    ELSE <<>>

\* LiveTrading._handle_order_trade_update
handle_order_trade_update(book, event) ==
    IF event.symbol \in Range(settings.symbols_list)
    THEN IF event.status = "NEW" /\ event.order_type = <<event.curr_order_type>>
         THEN on_new_order(book, event)
         ELSE IF event.status \in {"PARTIALLY_FILLED", "FILLED"}
         THEN (IF event.status = "FILLED" THEN on_removed_order(book, event) ELSE Return(book))
         ELSE IF event.status = "CANCELED" THEN on_removed_order(book, event)
         ELSE IF event.status = "EXPIRED" THEN on_removed_order(book, event)
         ELSE Return(book)
    ELSE Return(book)

\* LiveTrading._handle_algo_update
handle_algo_update(book, event) ==
    IF event.symbol \notin Range(settings.symbols_list) THEN Return(book)
    ELSE LET added == IF event.status = "NEW" THEN on_new_order(book, event) ELSE Return(book)
         IN IF ~Returned(added) THEN added
            ELSE IF event.status = "TRIGGERED" THEN on_removed_order(added.value, event)
            ELSE IF event.status = "CANCELED" THEN on_removed_order(added.value, event)
            ELSE IF event.status = "EXPIRED" THEN on_removed_order(added.value, event)
            ELSE added

\* the user stream before its first event: the event handled last, the number
\* handled, the orders that have ended, the profit reported last
UserStream ==
    [name |-> "user_stream", event |-> <<>>, handled |-> 0, terminated |-> {}, reported |-> <<>>,
     own |-> [key \in AllSymbols \X (1..(2 * MaxOrderId)) |-> 0]]

\* the statuses after which the exchange sends nothing more for an order id
TerminalStatuses(source) ==
    IF source = ORDER_TRADE_UPDATE THEN {"FILLED", "CANCELED", "EXPIRED"}
    ELSE {"TRIGGERED", "CANCELED", "EXPIRED"}

\* _user_stream_handler, after the handler of one event: an exception of the
\* handler is caught and logged, the book is as the handler left it
Delivered(event, done) ==
    /\ orders' = IF Returned(done) THEN done.value ELSE orders
    /\ result' = IF Returned(done) THEN Return(<<>>) ELSE done
    /\ request' = [request EXCEPT
           !.event = <<event>>,
           !.handled = @ + 1,
           !.terminated = IF event.status \in TerminalStatuses(event.source)
                          THEN @ \cup {<<event.symbol, event.order_id>>} ELSE @,
           !.reported = IF event.source = ORDER_TRADE_UPDATE
                        THEN reported_profit(realized_profit, event) ELSE <<>>,
           \* what the exchange has sent as the realized profit of the order's own
           \* fills, until the order ends
           !.own = IF event.source = ORDER_TRADE_UPDATE /\ event.status = "PARTIALLY_FILLED"
                   THEN [@ EXCEPT ![<<event.symbol, event.order_id>>] = @ + profit_of(event)]
                   ELSE IF event.status \in TerminalStatuses(event.source)
                   THEN [@ EXCEPT ![<<event.symbol, event.order_id>>] = 0]
                   ELSE @]

\* _user_stream_handler for an ORDER_TRADE_UPDATE event
HandleOrderTradeUpdate ==
    /\ pc = "user_stream"
    /\ request.handled < MaxOrderEvents
    /\ \E event \in StreamEvents :
         /\ event.source = ORDER_TRADE_UPDATE
         /\ Delivered(event, handle_order_trade_update(orders, event))
         /\ realized_profit' = order_trade_update_profit(realized_profit, event)
    /\ UNCHANGED <<mode, lock, tasks, settings, filters, balance, positions, test_results, next_id, pc, i, s, bar, filled>>

\* _user_stream_handler for an ALGO_UPDATE event
HandleAlgoUpdate ==
    /\ pc = "user_stream"
    /\ request.handled < MaxOrderEvents
    /\ \E event \in StreamEvents :
         /\ event.source = ALGO_UPDATE
         /\ Delivered(event, handle_algo_update(orders, event))
    /\ UNCHANGED <<mode, realized_profit, lock, tasks, settings, filters, balance, positions, test_results, next_id, pc, i, s, bar, filled>>

\* ------------------------------------------------------------- LiveTrading: candlestick tasks
\* asyncio.Lock(): _locked and the queue of the tasks waiting in acquire()
Lock == [locked |-> FALSE, waiters |-> <<>>]

\* the task asyncio.create_task(self.strategy.on_new_candlestick(data)) creates
Task(symbol) ==
    [symbol |-> symbol, pc |-> "created", side |-> <<>>, entry_price |-> 0,
     balance |-> <<>>, entry_quantity |-> <<>>, placed |-> <<>>]

\* OrderList.has_type
has_type(list, types) == \E k \in 1..Len(list) : is_type(list[k], types)

\* LiveTrading._market_stream_handler, a callback of the kline stream of a symbol
MarketStreamHandler ==
    /\ pc = "live"
    /\ ~Running
    /\ Len(tasks) < MaxTasks
    /\ \E symbol \in Range(settings.symbols_list) : tasks' = Append(tasks, Task(symbol))
    /\ UNCHANGED <<mode, realized_profit, lock, settings, filters, request, result, balance, orders, positions, test_results, next_id, pc, i, s, bar, filled>>

\* The event loop starts a task: on_new_candlestick (x: the candle is closed) and
\* Example.run up to "async with self.lock".  The signal (rsi < 30, rsi > 70 or
\* none) and the entry price come from the indicators.
RunStrategy ==
    /\ pc = "live"
    /\ ~Running
    /\ \E t \in 1..Len(tasks), x \in BOOLEAN, signal \in {<<>>, <<BUY>>, <<SELL>>}, entry_price \in Prices :
         /\ tasks[t].pc = "created"
         /\ LET symbol == tasks[t].symbol
            IN IF \/ ~x
                  \/ has_type(BookGet(orders, symbol), {LIMIT})
                  \/ BookGet(positions, symbol) # <<>>
                  \/ signal = <<>>
               THEN tasks' = [tasks EXCEPT ![t].pc = "done"]
               ELSE tasks' = [tasks EXCEPT ![t].pc = "run", ![t].side = signal,
                                           ![t].entry_price = entry_price]
    /\ UNCHANGED <<mode, realized_profit, lock, settings, filters, request, result, balance, orders, positions, test_results, next_id, pc, i, s, bar, filled>>

\* "async with self.lock": Lock.acquire().  A free lock without waiters is taken
\* at once, without an await; otherwise the task waits in the queue of the lock
\* and goes on, holding the lock, when it is the first waiter of the released lock.
EnterLock ==
    /\ pc = "live"
    /\ \E t \in 1..Len(tasks) :
         \/ /\ tasks[t].pc = "run"
            /\ IF ~lock.locked /\ lock.waiters = <<>>
               THEN /\ lock' = [lock EXCEPT !.locked = TRUE]
                    /\ tasks' = [tasks EXCEPT ![t].pc = "locked"]
               ELSE /\ lock' = [lock EXCEPT !.waiters = Append(@, t)]
                    /\ tasks' = [tasks EXCEPT ![t].pc = "waiting"]
         \/ /\ tasks[t].pc = "waiting"
            /\ ~Running
            /\ ~lock.locked
            /\ Head(lock.waiters) = t
            /\ lock' = [locked |-> TRUE, waiters |-> Tail(lock.waiters)]
            /\ tasks' = [tasks EXCEPT ![t].pc = "locked"]
    /\ UNCHANGED <<mode, realized_profit, settings, filters, request, result, balance, orders, positions, test_results, next_id, pc, i, s, bar, filled>>

\* entry_quantity := self.exchange_info.to_entry_quantity(..., balance=self.balance)
SizeOrder ==
    /\ pc = "live"
    /\ \E t \in 1..Len(tasks), inexact \in BOOLEAN :
         /\ tasks[t].pc = "locked"
         /\ LET sized == to_entry_quantity(tasks[t].symbol, tasks[t].entry_price, balance, inexact)
            IN tasks' = [tasks EXCEPT ![t].pc = "sized", ![t].balance = <<balance>>,
                                      ![t].entry_quantity = <<sized.value>>]
    /\ UNCHANGED <<mode, realized_profit, lock, settings, filters, request, result, balance, orders, positions, test_results, next_id, pc, i, s, bar, filled>>

\* fetch(self.client.rest_api.new_order, ...) when the quantity is not 0: the
\* order goes to the exchange (it reaches the OrderList with its NEW event)
PlaceOrder ==
    /\ pc = "live"
    /\ \E t \in 1..Len(tasks) :
         /\ tasks[t].pc = "sized"
         /\ tasks' = [tasks EXCEPT
                ![t].pc = "placed",
                ![t].placed = IF tasks[t].entry_quantity[1] # 0
                              THEN <<[type |-> LIMIT, side |-> tasks[t].side[1],
                                      price |-> tasks[t].entry_price,
                                      quantity |-> tasks[t].entry_quantity[1]]>>
                              ELSE <<>>]
    /\ UNCHANGED <<mode, realized_profit, lock, settings, filters, request, result, balance, orders, positions, test_results, next_id, pc, i, s, bar, filled>>

\* the end of "async with self.lock": Lock.release(), and the end of the task
ReleaseLock ==
    /\ pc = "live"
    /\ \E t \in 1..Len(tasks) :
         /\ tasks[t].pc = "placed"
         /\ lock' = [lock EXCEPT !.locked = FALSE]
         /\ tasks' = [tasks EXCEPT ![t].pc = "done"]
    /\ UNCHANGED <<mode, realized_profit, settings, filters, request, result, balance, orders, positions, test_results, next_id, pc, i, s, bar, filled>>

\* ------------------------------------------------------------- specifications
Init == InitBacktest \/ InitLive

Next ==
    \/ RunBacktest
    \/ ExpireOrders
    \/ BeginEval
    \/ EvalOrder
    \/ EndEval
    \/ FlushPosition
    \/ HandleAccountUpdate

Spec == Init /\ [][Next]_vars

\* The fill matrix: Order.is_filled applied by _filled_orders to one resting order
\* of any type, side and price, on any candle.
FillOrders == [symbol : {"BTCUSDT"}, order_id : {1}, type : AllOrderTypes, side : Sides,
               price : 1..FillMaxPrice, quantity : {1}, gtd : {<<>>}]
FillBars == {b \in [high : 0..FillMaxBar, low : 0..FillMaxBar] : b.low <= b.high}

InitFill ==
    /\ mode = "is_filled"
    /\ lock = NoLock
    /\ tasks = <<>>
    /\ settings = GlobalSettings(1, <<"BTCUSDT">>, 0)
    /\ filters = [sym \in {"BTCUSDT"} |-> DefaultFilter]
    /\ request = NoCall
    /\ result = NoCall
    /\ balance = Balance(settings.balance)
    /\ \E o \in FillOrders : orders = [sym \in {"BTCUSDT"} |-> <<o>>]
    /\ positions = [sym \in {"BTCUSDT"} |-> <<>>]
    /\ test_results = [sym \in {"BTCUSDT"} |-> NewResult]
    /\ realized_profit = <<>>
    /\ next_id = 1
    /\ pc = "eval"
    /\ i = 1
    /\ s = 1
    /\ bar \in FillBars
    /\ filled = <<>>

NextFill == BeginEval

SpecFill == InitFill /\ [][NextFill]_vars

\* The round trip: _eval_orders on one bar, for a symbol without a position whose
\* OrderList holds an entry order and, behind it, an exit order (a strategy places
\* the bracket orders together with the entry order), at every leverage and
\* several starting balances.
TripBalances == {0, Cent + 1, StartBalance * Cent, StartBalance * Cent + Cent - 1}

InitTrip ==
    /\ mode = "round_trip"
    /\ lock = NoLock
    /\ tasks = <<>>
    /\ \E leverage \in 1..MaxLeverage, raw \in TripBalances :
         settings = GlobalSettings(leverage, <<"BTCUSDT">>, raw)
    /\ filters = [sym \in {"BTCUSDT"} |-> DefaultFilter]
    /\ request = NoCall
    /\ result = NoCall
    /\ balance = Balance(settings.balance)
    /\ \E entry \in [type : {LIMIT}, side : Sides, price : Prices, quantity : Quantities, gtd : {<<>>}],
          exit \in [type : ExitTypes, side : Sides, price : Prices, quantity : Quantities, gtd : {<<>>}] :
         orders = [sym \in {"BTCUSDT"} |-> open_orders(<<>>, sym, 0, <<entry, exit>>)]
    /\ positions = [sym \in {"BTCUSDT"} |-> <<>>]
    /\ test_results = [sym \in {"BTCUSDT"} |-> NewResult]
    /\ realized_profit = [sym \in Range(settings.symbols_list) |-> 0]
    /\ next_id = 2
    /\ pc = "eval"
    /\ i = 1
    /\ s = 1
    /\ bar \in Bars
    /\ filled = <<>>

NextTrip == BeginEval \/ EvalOrder

SpecTrip == InitTrip /\ [][NextTrip]_vars

\* The end-to-end scenario: a backtest of one symbol with balance 10000.00,
\* leverage 10, size 0.05 and the filter {tick_size 0.1, step_size 0.001,
\* min_notional 100}.  A quantity unit is 0.001 (one step), so a price of 50000 per
\* whole unit is 50.00 = 5000 cents per quantity unit and the tick 0.1 is 0.01 cent.
Usdt(n) == n * 100 * Cent
ScenarioEntryPrice == 5000 * Cent
ScenarioTakeProfit == 5250 * Cent
ScenarioLevels == {4900 * Cent, ScenarioEntryPrice, ScenarioTakeProfit, 5300 * Cent}
ScenarioBars == {b \in [high : ScenarioLevels, low : ScenarioLevels] : b.low <= b.high}

InitScenario ==
    /\ mode = "scenario"
    /\ lock = NoLock
    /\ tasks = <<>>
    /\ settings = GlobalSettings(10, <<"BTCUSDT">>, Usdt(10000))
    /\ filters = [sym \in {"BTCUSDT"} |->
                    [tick_size |-> Cent \div 100, step_size |-> 1, min_notional |-> Usdt(100)]]
    /\ request = NoCall
    /\ result = NoCall
    /\ balance = Balance(settings.balance)
    /\ orders = [sym \in {"BTCUSDT"} |-> <<>>]
    /\ positions = [sym \in {"BTCUSDT"} |-> <<>>]
    /\ test_results = [sym \in {"BTCUSDT"} |-> NewResult]
    /\ realized_profit = [sym \in Range(settings.symbols_list) |-> 0]
    /\ next_id = 0
    /\ pc = "strategy"
    /\ i = 1
    /\ s = 1
    /\ bar = NoBar
    /\ filled = <<>>

\* _run_backtest_loop, lines 403-406, with the strategy of the scenario: on its
\* first bar it sizes a LIMIT BUY at 50000 with to_entry_quantity and, when the
\* quantity is not 0, places it with a take-profit at 52500.  In binary64
\* 10000 * 0.05 * 10 / 50000 is 0.1 and 0.1 / 0.001 is 100.0: int() is exact here.
ScenarioStrategy ==
    /\ pc = "strategy"
    /\ bar' \in ScenarioBars
    /\ LET entry_quantity == to_entry_quantity(Sym, ScenarioEntryPrice, balance, FALSE).value
       IN IF next_id = 0 /\ entry_quantity # 0
          THEN /\ orders' = BookSet(orders, Sym, open_orders(orders[Sym], Sym, next_id,
                    <<[type |-> LIMIT, side |-> BUY, price |-> ScenarioEntryPrice,
                       quantity |-> entry_quantity, gtd |-> <<>>],
                      [type |-> TAKE_PROFIT_MARKET, side |-> SELL, price |-> ScenarioTakeProfit,
                       quantity |-> entry_quantity, gtd |-> <<>>]>>))
               /\ next_id' = next_id + 2
          ELSE UNCHANGED <<orders, next_id>>
    /\ pc' = "expire"
    /\ UNCHANGED <<mode, realized_profit, lock, tasks, settings, filters, request, result, balance, positions, test_results, i, s, filled>>

NextScenario ==
    \/ ScenarioStrategy
    \/ ExpireOrders
    \/ BeginEval
    \/ EvalOrder
    \/ EndEval
    \/ FlushPosition

SpecScenario == InitScenario /\ [][NextScenario]_vars

\* Balance under a sequence of add_pnl calls: a Balance built from a raw value
\* receives two deltas, signed and with or without sub-cent digits.
RawStarts == {0, Cent \div 2, StartBalance * Cent, StartBalance * Cent + Cent - 1}
Deltas == {-(Cent + 1), -(Cent \div 2), -1, 1, Cent \div 2, Cent, Cent + Cent \div 2 + 1}

InitBalance ==
    /\ mode = "balance"
    /\ lock = NoLock
    /\ tasks = <<>>
    /\ \E raw \in RawStarts : settings = GlobalSettings(1, <<"BTCUSDT">>, raw)
    /\ filters = [sym \in {"BTCUSDT"} |-> DefaultFilter]
    /\ \E d1 \in Deltas, d2 \in Deltas :
         request = [name |-> "add_pnl", deltas |-> <<d1, d2>>, applied |-> 0]
    /\ result = NoCall
    /\ balance = Balance(settings.balance)
    /\ orders = [sym \in {"BTCUSDT"} |-> <<>>]
    /\ positions = [sym \in {"BTCUSDT"} |-> <<>>]
    /\ test_results = [sym \in {"BTCUSDT"} |-> NewResult]
    /\ realized_profit = <<>>
    /\ next_id = 0
    /\ pc = "call"
    /\ i = 0
    /\ s = 1
    /\ bar = NoBar
    /\ filled = <<>>

\* one call balance.add_pnl(delta), with the next delta of the sequence
AddPnl ==
    /\ pc = "call"
    /\ request # NoCall
    /\ request.name = "add_pnl"
    /\ request.applied < Len(request.deltas)
    /\ balance' = add_pnl(balance, request.deltas[request.applied + 1])
    /\ request' = [request EXCEPT !.applied = @ + 1]
    /\ UNCHANGED <<mode, realized_profit, lock, tasks, settings, filters, result, orders, positions, test_results, next_id, pc, i, s, bar, filled>>

NextBalance == AddPnl

SpecBalance == InitBalance /\ [][NextBalance]_vars

\* Requests to ExchangeInfo.  The exchange information holds the filters of
\* BTCUSDT (any of tickSize, stepSize and notional may be missing from them) and
\* none for ETHUSDT.  Prices and tick sizes are decimal numbers here; a unit of
\* money is a unit of price times a unit of quantity.
TickSizes == {1, 5, 10, 50, 100, 500, 1000}
StepSizes == {1, 5, 10}
MinNotionals == {6, 20}
SizingPrices == {0, 1, 3, 20}
SizingBalances == {10 * k : k \in 0..MaxSizingBalance}
Optional(S) == {<<>>} \cup {<<x>> : x \in S}

InitExchangeInfo ==
    /\ mode = "exchange_info"
    /\ lock = NoLock
    /\ tasks = <<>>
    /\ \E leverage \in {1, MaxLeverage} : settings = GlobalSettings(leverage, <<"BTCUSDT">>, 0)
    /\ \/ /\ \E tick_size \in Optional(TickSizes) :
               filters = ExchangeInfo({
                   [symbol |-> "BTCUSDT",
                    filters |-> [tick_size |-> tick_size, step_size |-> <<1>>, notional |-> <<>>]],
                   [symbol |-> "ETHUSDT", filters |-> <<>>]})
          /\ \E symbol \in AllSymbols, initial_price \in 0..MaxRawPrice, up \in BOOLEAN :
               request = [name |-> "to_entry_price", symbol |-> symbol,
                          initial_price |-> initial_price, up |-> up, rounded |-> FALSE]
          /\ balance = 0
       \/ /\ \E step_size \in Optional(StepSizes), notional \in Optional(MinNotionals) :
               filters = ExchangeInfo({
                   [symbol |-> "BTCUSDT",
                    filters |-> [tick_size |-> <<1>>, step_size |-> step_size, notional |-> notional]],
                   [symbol |-> "ETHUSDT", filters |-> <<>>]})
          /\ \E symbol \in AllSymbols, entry_price \in SizingPrices, inexact \in BOOLEAN :
               request = [name |-> "to_entry_quantity", symbol |-> symbol,
                          entry_price |-> entry_price, inexact |-> inexact, rounded |-> FALSE,
                          initial_quantity |-> 0]
          /\ balance \in SizingBalances
    /\ result = NoCall
    /\ orders = [sym \in {"BTCUSDT"} |-> <<>>]
    /\ positions = [sym \in {"BTCUSDT"} |-> <<>>]
    /\ test_results = [sym \in {"BTCUSDT"} |-> NewResult]
    /\ realized_profit = <<>>
    /\ next_id = 0
    /\ pc = "call"
    /\ i = 0
    /\ s = 1
    /\ bar = NoBar
    /\ filled = <<>>

\* exchange_info.to_entry_price(symbol, initial_price)
ToEntryPrice ==
    /\ pc = "call"
    /\ request # NoCall
    /\ request.name = "to_entry_price"
    /\ result' = to_entry_price(request.symbol, request.initial_price, request.up)
    /\ pc' = "return"
    /\ UNCHANGED <<mode, realized_profit, lock, tasks, settings, filters, request, balance, orders, positions, test_results, next_id, i, s, bar, filled>>

\* exchange_info.to_entry_quantity(symbol, entry_price, balance)
ToEntryQuantity ==
    /\ pc = "call"
    /\ request # NoCall
    /\ request.name = "to_entry_quantity"
    /\ result' = to_entry_quantity(request.symbol, request.entry_price, balance, request.inexact)
    /\ pc' = "return"
    /\ UNCHANGED <<mode, realized_profit, lock, tasks, settings, filters, request, balance, orders, positions, test_results, next_id, i, s, bar, filled>>

\* the price a call returned is given to to_entry_price again
AgainPrice ==
    /\ pc = "return"
    /\ request # NoCall
    /\ request.name = "to_entry_price"
    /\ ~request.rounded
    /\ Returned(result)
    /\ \E up \in BOOLEAN :
         request' = [request EXCEPT !.initial_price = result.value, !.up = up, !.rounded = TRUE]
    /\ result' = NoCall
    /\ pc' = "call"
    /\ UNCHANGED <<mode, realized_profit, lock, tasks, settings, filters, balance, orders, positions, test_results, next_id, i, s, bar, filled>>

\* the quantity a call returned is sized again: to_entry_quantity is called with
\* a balance for which calculate_quantity is that quantity
AgainQuantity ==
    /\ pc = "return"
    /\ request # NoCall
    /\ request.name = "to_entry_quantity"
    /\ ~request.rounded
    /\ Returned(result)
    /\ result.value # 0
    /\ LET num == settings.size[2] * request.entry_price * result.value
           den == settings.size[1] * settings.leverage
       IN /\ num % den = 0
          /\ balance' = num \div den
    /\ \E inexact \in BOOLEAN :
         request' = [request EXCEPT !.inexact = inexact, !.rounded = TRUE,
                                    !.initial_quantity = result.value]
    /\ result' = NoCall
    /\ pc' = "call"
    /\ UNCHANGED <<mode, realized_profit, lock, tasks, settings, filters, orders, positions, test_results, next_id, i, s, bar, filled>>

NextExchangeInfo ==
    \/ ToEntryPrice
    \/ ToEntryQuantity
    \/ AgainPrice
    \/ AgainQuantity

SpecExchangeInfo == InitExchangeInfo /\ [][NextExchangeInfo]_vars

\* The user stream of live trading: ORDER_TRADE_UPDATE and ALGO_UPDATE events of
\* any status, symbol and id, in any order.  request holds the event handled last,
\* the number of events handled and the (symbol, id) whose terminal event has
\* been handled.
InitOrders ==
    /\ mode = "live_orders"
    /\ lock = NoLock
    /\ tasks = <<>>
    /\ settings = GlobalSettings(1, <<"BTCUSDT">>, StartBalance * Cent)
    /\ filters = [sym \in {"BTCUSDT"} |-> DefaultFilter]
    /\ request = UserStream
    /\ result = NoCall
    /\ balance = Balance(settings.balance)
    /\ orders = [sym \in {"BTCUSDT"} |-> <<>>]
    /\ positions = [sym \in {"BTCUSDT"} |-> <<>>]
    /\ test_results = <<>>
    /\ realized_profit = [sym \in Range(settings.symbols_list) |-> 0]
    /\ next_id = 0
    /\ pc = "user_stream"
    /\ i = 0
    /\ s = 0
    /\ bar = NoBar
    /\ filled = <<>>

NextOrders == HandleOrderTradeUpdate \/ HandleAlgoUpdate

SpecOrders == InitOrders /\ [][NextOrders]_vars

\* Live trading: the candlestick tasks of the market stream, which size and place
\* an order under Strategy.lock, and the ACCOUNT_UPDATE callbacks of the user
\* stream, on the one thread of the asyncio event loop.
InitSizing ==
    /\ mode = "live_sizing"
    /\ lock = Lock
    /\ tasks = <<>>
    /\ settings = GlobalSettings(MaxLeverage, <<"BTCUSDT">>, StartBalance * Cent)
    /\ filters = [sym \in {"BTCUSDT"} |-> DefaultFilter]
    /\ request = NoCall
    /\ result = NoCall
    /\ \E raw \in RawBalances : balance = Balance(raw)
    /\ orders = [sym \in {"BTCUSDT"} |-> <<>>]
    /\ positions = [sym \in {"BTCUSDT"} |-> <<>>]
    /\ test_results = <<>>
    /\ realized_profit = [sym \in Range(settings.symbols_list) |-> 0]
    /\ next_id = 0
    /\ pc = "live"
    /\ i = 0
    /\ s = 0
    /\ bar = NoBar
    /\ filled = <<>>

NextSizing ==
    \/ MarketStreamHandler
    \/ RunStrategy
    \/ EnterLock
    \/ SizeOrder
    \/ PlaceOrder
    \/ ReleaseLock
    \/ HandleAccountUpdate

SpecSizing == InitSizing /\ [][NextSizing]_vars

\* The end of a backtest: _flush_position for a symbol whose position is still
\* open (or that has none) after the last bar, with the exit orders that rest;
\* bar is the last candle of the symbol.
FlushPositions ==
    {<<>>} \cup {<<Position("BTCUSDT", price, amount, side, lev, <<>>)>> :
                    price \in Prices, amount \in Quantities, side \in Sides, lev \in 1..MaxLeverage}

InitFlush ==
    /\ mode = "flush"
    /\ lock = NoLock
    /\ tasks = <<>>
    /\ settings = GlobalSettings(MaxLeverage, <<"BTCUSDT">>, StartBalance * Cent)
    /\ filters = [sym \in {"BTCUSDT"} |-> DefaultFilter]
    /\ request = NoCall
    /\ result = NoCall
    /\ balance \in {0, Cent \div 2, StartBalance * Cent}
    /\ \E ps \in SeqsUpTo([type : {STOP_MARKET, TAKE_PROFIT_MARKET}, side : {SELL}, price : Prices,
                            quantity : {1}, gtd : {<<>>}], 1) :
         orders = [sym \in {"BTCUSDT"} |-> open_orders(<<>>, sym, 0, ps)]
    /\ \E list \in FlushPositions :
         /\ positions = [sym \in {"BTCUSDT"} |-> list]
         /\ \A k \in 1..Len(list) : list[k].leverage = settings.leverage
         /\ test_results = [sym \in {"BTCUSDT"} |->
                IF list = <<>> THEN NewResult ELSE increment_hit_count(NewResult, list[1].side)]
    /\ realized_profit = [sym \in Range(settings.symbols_list) |-> 0]
    /\ next_id = 1
    /\ pc = "flush"
    /\ i = MaxBars
    /\ s = 1
    /\ bar \in Bars
    /\ filled = <<>>

NextFlush == FlushPosition

SpecFlush == InitFlush /\ [][NextFlush]_vars

\* The user stream of live trading: the three handlers of _user_stream_handler on
\* events of a configured symbol (BTCUSDT) and of one that is not (ETHUSDT).
InitStream ==
    /\ mode = "live_stream"
    /\ lock = NoLock
    /\ tasks = <<>>
    /\ settings = GlobalSettings(1, <<"BTCUSDT">>, StartBalance * Cent)
    /\ filters = [sym \in {"BTCUSDT"} |-> DefaultFilter]
    /\ request = UserStream
    /\ result = NoCall
    /\ balance = Balance(settings.balance)
    /\ orders = [sym \in {"BTCUSDT"} |-> <<>>]
    /\ positions = [sym \in {"BTCUSDT"} |-> <<>>]
    /\ test_results = <<>>
    /\ realized_profit = [sym \in Range(settings.symbols_list) |-> 0]
    /\ next_id = 0
    /\ pc = "user_stream"
    /\ i = 0
    /\ s = 0
    /\ bar = NoBar
    /\ filled = <<>>

NextStream == HandleOrderTradeUpdate \/ HandleAlgoUpdate \/ HandleAccountUpdate

SpecStream == InitStream /\ [][NextStream]_vars

\* A whole backtest run over a portfolio: _run_backtest_loop is sequential code over a finite
\* candle series, so a step that can be taken is taken (asyncio.run drives the
\* coroutine to its end; strategy.run_backtest returns).
\* The run is over the two symbols of AllSymbols, which share the one balance.
InitPortfolio ==
    /\ mode = "backtest"
    /\ lock = NoLock
    /\ tasks = <<>>
    /\ settings = GlobalSettings(MaxLeverage, <<"BTCUSDT", "ETHUSDT">>, StartBalance * Cent)
    /\ filters = [sym \in Range(settings.symbols_list) |-> DefaultFilter]
    /\ request = NoCall
    /\ result = NoCall
    /\ balance = Balance(settings.balance)
    /\ orders = [sym \in Range(settings.symbols_list) |-> <<>>]
    /\ positions = [sym \in Range(settings.symbols_list) |-> <<>>]
    /\ test_results = [sym \in Range(settings.symbols_list) |-> NewResult]
    /\ realized_profit = [sym \in Range(settings.symbols_list) |-> 0]
    /\ next_id = 0
    /\ pc = "strategy"
    /\ i = 1
    /\ s = 1
    /\ bar = NoBar
    /\ filled = <<>>

SpecPortfolio == InitPortfolio /\ [][NextBacktest]_vars /\ WF_vars(NextBacktest)

\* Sizes: settings.size, a fraction of the balance (gt 0, le 1)
Sizes == {<<1, 20>>, <<1, 1>>}

\* A backtest with a strategy that sizes its orders with to_entry_quantity, over
\* two symbols that share the one balance.
InitSized ==
    /\ mode = "backtest_sized"
    /\ lock = NoLock
    /\ tasks = <<>>
    /\ \E size \in Sizes :
         settings = [GlobalSettings(MaxLeverage, <<"BTCUSDT", "ETHUSDT">>, StartBalance * Cent)
                        EXCEPT !.size = size]
    /\ filters = [sym \in Range(settings.symbols_list) |-> DefaultFilter]
    /\ request = NoCall
    /\ result = NoCall
    /\ balance = Balance(settings.balance)
    /\ orders = [sym \in Range(settings.symbols_list) |-> <<>>]
    /\ positions = [sym \in Range(settings.symbols_list) |-> <<>>]
    /\ test_results = [sym \in Range(settings.symbols_list) |-> NewResult]
    /\ realized_profit = [sym \in Range(settings.symbols_list) |-> 0]
    /\ next_id = 0
    /\ pc = "strategy"
    /\ i = 1
    /\ s = 1
    /\ bar = NoBar
    /\ filled = <<>>

SpecSized == InitSized /\ [][NextBacktest]_vars

\* ------------------------------------------------------------- claims
\* the order is in the list _eval_orders iterates over
InFilled(o) == \E j \in 1..Len(filled) : filled[j] = o

\* C1: a LIMIT order is reported filled by is_filled(high, low) if and only if
\* price >= low (side BUY) or price <= high (side SELL), on every candle.
C1_LimitFilledIff ==
    pc = "loop" =>
        \A k \in 1..Len(orders[Sym]) :
            LET o == orders[Sym][k]
            IN o.type = LIMIT =>
                (InFilled(o) <=> IF o.side = BUY THEN o.price >= bar.low ELSE o.price <= bar.high)

\* a BUY limit exactly at the low of a candle that lies otherwise above it is filled
C1_Witness ==
    /\ pc = "loop"
    /\ filled # <<>>
    /\ Head(filled).type = LIMIT
    /\ Head(filled).side = BUY
    /\ Head(filled).price = bar.low
    /\ bar.low < bar.high

\* C2: a MARKET order is filled on every candle; a TAKE_PROFIT_MARKET order iff
\* price <= high (SELL) or price >= low (BUY); a STOP_MARKET order iff
\* price >= low (SELL) or price <= high (BUY).
C2_ExitFilledIff ==
    pc = "loop" =>
        \A k \in 1..Len(orders[Sym]) :
            LET o == orders[Sym][k]
            IN /\ o.type = MARKET => InFilled(o)
               /\ o.type = TAKE_PROFIT_MARKET =>
                    (InFilled(o) <=> IF o.side = SELL THEN o.price <= bar.high ELSE o.price >= bar.low)
               /\ o.type = STOP_MARKET =>
                    (InFilled(o) <=> IF o.side = SELL THEN o.price >= bar.low ELSE o.price <= bar.high)

\* a SELL stop above the whole candle is filled (a take-profit there would not be)
C2_Witness ==
    /\ pc = "loop"
    /\ filled # <<>>
    /\ Head(filled).type = STOP_MARKET
    /\ Head(filled).side = SELL
    /\ Head(filled).price > bar.high

\* the loop of _eval_orders is at an order: the next step evaluates Head(filled)
AtOrder == pc = "loop" /\ filled # <<>>
\* Head(filled) is an entry order met while the symbol has no position
EntryFill == AtOrder /\ positions[Sym] = <<>> /\ Head(filled).type = LIMIT
\* Head(filled) is a closing order met while the symbol has a position
ExitFill == AtOrder /\ positions[Sym] # <<>> /\ Head(filled).type \in ExitTypes
Total(count) == count[BUY] + count[SELL]

\* C3: a LIMIT order that fills while its symbol has no position opens a Position
\* with the order's symbol, side, price and quantity at the configured leverage,
\* leaves the OrderList without that order (and otherwise as it was), and lowers
\* the balance by exactly amount * price / leverage.
C3_OpenPosition ==
    [][EntryFill =>
        LET o == Head(filled)
        IN /\ positions'[Sym] = <<[symbol |-> o.symbol, price |-> o.price, amount |-> o.quantity,
                                   side |-> o.side, leverage |-> settings.leverage,
                                   break_even_price |-> o.price]>>
           /\ o.symbol = Sym
           /\ orders'[Sym] = SelectSeq(orders[Sym], LAMBDA x : x # o)
           /\ \A k \in 1..Len(orders'[Sym]) : orders'[Sym][k].order_id # o.order_id
           /\ (balance - balance') * settings.leverage = o.quantity * o.price]_vars

\* a position has been opened, its margin is off the balance, another order rests
C3_Witness ==
    /\ mode = "backtest"
    /\ pc = "loop"
    /\ Len(positions[Sym]) = 1
    /\ Total(test_results[Sym].hit_count) = 1
    /\ Total(test_results[Sym].trade_count) = 0
    /\ orders[Sym] # <<>>
    /\ (StartBalance * Cent - balance) * settings.leverage
            = positions[Sym][1].amount * positions[Sym][1].price

\* C4: an exit order that fills while a position exists raises the balance by
\* exactly pnl + initial_margin of the position, leaves the symbol without a
\* position and without any order.
C4_ClosePosition ==
    [][ExitFill =>
        LET o == Head(filled)
            position == positions[Sym][1]
        IN /\ balance' = balance + simple_pnl(position, o.price) + initial_margin(position)
           /\ positions'[Sym] = <<>>
           /\ orders'[Sym] = <<>>]_vars

\* a closing order is about to close the position while the other bracket order
\* rests beside it
C4_Witness ==
    /\ ExitFill
    /\ Head(filled).type = TAKE_PROFIT_MARKET
    /\ \E k \in 1..Len(orders[Sym]) : orders[Sym][k].type = STOP_MARKET

\* C5: the realized P&L of a close is (exit - entry) * amount for a long position
\* and (entry - exit) * amount for a short one.
C5_RealizedPnl ==
    [][ExitFill =>
        LET o == Head(filled)
            position == positions[Sym][1]
            r == test_results[Sym]
        IN (test_results'[Sym].profit + test_results'[Sym].loss) - (r.profit + r.loss)
            = IF position.side = BUY THEN (o.price - position.price) * position.amount
              ELSE (position.price - o.price) * position.amount]_vars

\* a short position has been closed above its entry price: a loss is recorded
C5_Witness ==
    /\ mode = "backtest"
    /\ test_results[Sym].trade_count[SELL] = 1
    /\ test_results[Sym].loss < 0

\* the backtest is processing a bar (strategy, expiry, fill-matching)
InBar == mode = "backtest" /\ pc \in {"strategy", "expire", "eval", "loop"}

\* C6: while bars are processed the position of a symbol only moves absent -> open,
\* on an entry fill met without a position, and open -> absent, on a closing fill
\* met with a position; an entry fill met with a position leaves the position as
\* it is, and a closing fill removes the position whole, whatever its quantity.
C6_PositionLifecycle ==
    [][InBar =>
        /\ positions' # positions =>
             \/ EntryFill /\ Len(positions'[Sym]) = 1
             \/ ExitFill /\ positions'[Sym] = <<>>
        /\ (AtOrder /\ positions[Sym] # <<>> /\ Head(filled).type = LIMIT) => positions' = positions
        /\ ExitFill => positions'[Sym] = <<>>]_vars

\* a LIMIT order is met filled while a position of another size is open
C6_Witness ==
    /\ AtOrder
    /\ positions[Sym] # <<>>
    /\ Head(filled).type = LIMIT
    /\ Head(filled).quantity # positions[Sym][1].amount

\* C7: every PositionList holds at most one position.
C7_AtMostOnePosition == \A sym \in DOMAIN positions : Len(positions[sym]) <= 1

\* live position updates have set a position for each of two symbols
C7_Witness ==
    /\ mode = "live"
    /\ \A sym \in AllSymbols : sym \in DOMAIN positions /\ Len(positions[sym]) = 1

\* C8: every stored Position has amount > 0.
C8_PositiveAmount ==
    \A sym \in DOMAIN positions :
        \A k \in 1..Len(positions[sym]) : positions[sym][k].amount > 0

\* a live update has reported a closed position (the list is there and empty) and
\* another a short one (negative amount), stored as a magnitude
C8_Witness ==
    /\ mode = "live"
    /\ "ETHUSDT" \in DOMAIN positions
    /\ positions["ETHUSDT"] = <<>>
    /\ Len(positions["BTCUSDT"]) = 1
    /\ positions["BTCUSDT"][1].side = SELL
    /\ positions["BTCUSDT"][1].amount = MaxQty

\* the fill-matching of the bar is over for the symbol
BarProcessed == mode = "backtest" /\ pc = "loop" /\ filled = <<>>

\* C9: once a bar has been processed, no order that is filled on the bar
\* (is_filled holds for its high/low) and no order that has expired is left in
\* the OrderList of the symbol.  (That an order makes two terminal transitions
\* would need such an order to stay in the list; the removal is what is stated.)
C9_FilledOrExpiredRemoved ==
    BarProcessed =>
        \A k \in 1..Len(orders[Sym]) :
            /\ ~is_filled(orders[Sym][k], bar.high, bar.low)
            /\ ~is_expired(orders[Sym][k], BarTime(i))

\* C10: the expiry step removes every order whose good-till-date is earlier than
\* the bar's timestamp, and such an order never opens or closes a position.
C10_ExpiredNeverActs ==
    [][/\ (mode = "backtest" /\ pc = "expire") =>
            \A k \in 1..Len(orders'[Sym]) : ~is_expired(orders'[Sym][k], BarTime(i))
       /\ (mode = "backtest" /\ AtOrder /\ positions' # positions) =>
            ~is_expired(Head(filled), BarTime(i))]_vars

\* C11: a bar makes at most one position transition for a symbol: when an entry
\* fill has opened a position, the fill-matching of that bar is not left at a
\* closing order (an exit order of the bar's filled list, which closes the position
\* on the same bar).
C11_OneTransitionPerBar ==
    [][(mode = "backtest" /\ EntryFill) => ~ExitFill']_vars

C13_Scenario ==
    [][mode = "scenario" =>
        /\ pc = "strategy" /\ next_id = 0 =>
              /\ Len(orders'[Sym]) = 2
              /\ orders'[Sym][1].type = LIMIT /\ orders'[Sym][1].price = ScenarioEntryPrice
              /\ orders'[Sym][1].quantity = Pow10(Digits - 1)
        /\ (pc = "eval" /\ find_by_type(orders[Sym], LIMIT) # <<>>) =>
              ((filled' # <<>> /\ Head(filled').type = LIMIT) <=> bar.low <= ScenarioEntryPrice)
        /\ EntryFill =>
              /\ positions'[Sym] = <<[symbol |-> "BTCUSDT", price |-> ScenarioEntryPrice,
                                      amount |-> Pow10(Digits - 1), side |-> BUY, leverage |-> 10,
                                      break_even_price |-> ScenarioEntryPrice]>>
              /\ balance = Usdt(10000)
              /\ balance' = Usdt(9500)
        /\ ExitFill =>
              /\ bar.high >= ScenarioTakeProfit
              /\ test_results'[Sym].profit = Usdt(250)
              /\ test_results'[Sym].loss = 0
              /\ balance' = Usdt(10250)
              /\ positions'[Sym] = <<>>
              /\ orders'[Sym] = <<>>
        /\ (pc = "eval" /\ positions[Sym] # <<>> /\ bar.high >= ScenarioTakeProfit) =>
              (filled' # <<>> /\ Head(filled').type = TAKE_PROFIT_MARKET)]_vars

\* the position was open at the start of a bar (opened on an earlier one, balance
\* 9500) and this bar has closed it: balance 10250, one winning long trade
C13_Witness ==
    /\ mode = "scenario"
    /\ pc = "loop"
    /\ i > 1
    /\ bar.low > ScenarioEntryPrice
    /\ test_results[Sym].trade_count[BUY] = 1
    /\ test_results[Sym].win_count[BUY] = 1
    /\ balance = Usdt(10250)
    /\ positions[Sym] = <<>>
    /\ orders[Sym] = <<>>

\* C14: after every mutation of the Balance (construction from a raw value, margin
\* debit on open, margin + P&L credit on close or flush) the amount is a whole
\* number of cents.
C14_BalanceWholeCents == balance % Cent = 0

\* C15: applying d1 and then d2 to a Balance floors to whole cents after each step,
\* and the final balance differs from the one of applying d1 + d2 in one step (and
\* flooring once) by at most one cent.
C15_TwoStepsWithinOneCent ==
    (mode = "balance" /\ request.applied = 2) =>
        LET start == Balance(settings.balance)
            d1 == request.deltas[1]
            d2 == request.deltas[2]
        IN /\ balance = Balance(Balance(start + d1) + d2)
           /\ Abs(balance - Balance(start + d1 + d2)) <= Cent

\* a call to ExchangeInfo has returned a value
PriceReturned ==
    /\ mode = "exchange_info" /\ pc = "return"
    /\ request.name = "to_entry_price" /\ Returned(result)
QuantityReturned ==
    /\ mode = "exchange_info" /\ pc = "return"
    /\ request.name = "to_entry_quantity" /\ Returned(result)
\* the whole steps in the raw quantity balance * size * leverage / entry_price
WholeSteps ==
    (balance * settings.size[1] * settings.leverage)
        \div (settings.size[2] * request.entry_price * filters[request.symbol].step_size)
\* the raw quantity is a whole number of steps
OnStepGrid ==
    (balance * settings.size[1] * settings.leverage)
        % (settings.size[2] * request.entry_price * filters[request.symbol].step_size) = 0

\* C16: to_entry_price returns the greatest multiple of tick_size that does not
\* exceed the raw price, and a quantity returned by to_entry_quantity is the
\* greatest multiple of step_size that does not exceed the raw quantity.
C16_RoundDownToGrid ==
    /\ PriceReturned /\ filters[request.symbol].tick_size # 0 =>
         LET tick_size == filters[request.symbol].tick_size
         IN result.value = (request.initial_price \div tick_size) * tick_size
    /\ QuantityReturned /\ result.value # 0 =>
         result.value = WholeSteps * filters[request.symbol].step_size

\* C17: price rounding and quantity rounding are idempotent: a value that one
\* call has returned is returned unchanged by the next call.
C17_RoundingIdempotent ==
    [][(mode = "exchange_info" /\ pc = "call" /\ request.rounded) =>
        result' = Return(IF request.name = "to_entry_price" THEN request.initial_price
                         ELSE request.initial_quantity)]_vars

\* C18: to_entry_quantity returns the step-rounded quantity when quantity *
\* entry_price >= min_notional (equality included) and returns 0, without raising,
\* when it is below.
C18_MinNotionalBoundary ==
    (/\ mode = "exchange_info" /\ pc = "return" /\ request.name = "to_entry_quantity"
     /\ request.symbol \in DOMAIN filters /\ request.entry_price # 0
     /\ filters[request.symbol].step_size # 0) =>
        LET f == filters[request.symbol]
            steps == IF OnStepGrid /\ request.inexact /\ WholeSteps > 0
                     THEN WholeSteps - 1 ELSE WholeSteps
            quantity == steps * f.step_size
        IN /\ Returned(result)
           /\ quantity * request.entry_price >= f.min_notional => result.value = quantity
           /\ quantity * request.entry_price < f.min_notional => result.value = 0

\* a quantity whose notional is exactly min_notional has been returned
C18_Witness ==
    /\ QuantityReturned
    /\ result.value > 0
    /\ filters[request.symbol].min_notional > 0
    /\ result.value * request.entry_price = filters[request.symbol].min_notional

\* C19: when to_entry_quantity returns a quantity other than 0, the stop-loss and
\* take-profit orders of that quantity, at the prices calculate_stop_price gives
\* them for either position side, have a notional of at least min_notional.
C19_BracketNotional ==
    (QuantityReturned /\ result.value # 0) =>
        \A stop_side \in Sides, up \in BOOLEAN :
            /\ result.value * calculate_stop_price(request.symbol, request.entry_price, STOP_MARKET,
                                  stop_side, settings.stop_loss_ratio, up).value
                    >= filters[request.symbol].min_notional
            /\ result.value * calculate_stop_price(request.symbol, request.entry_price, TAKE_PROFIT_MARKET,
                                  stop_side, settings.take_profit_ratio, up).value
                    >= filters[request.symbol].min_notional

\* C20: a price-rounding or sizing request for a symbol without a loaded filter
\* raises KeyError, returns no value, and leaves the exchange information (and the
\* balance and the settings) as they were.
C20_UnknownSymbolFails ==
    [][(mode = "exchange_info" /\ pc = "call" /\ request.symbol \notin DOMAIN filters) =>
        /\ result' = Raise("KeyError")
        /\ ~Returned(result')
        /\ filters' = filters
        /\ balance' = balance
        /\ settings' = settings]_vars

\* a sizing request for ETHUSDT, which the exchange information has no filter
\* for, has raised KeyError
C20_Witness ==
    /\ mode = "exchange_info"
    /\ pc = "return"
    /\ request.name = "to_entry_quantity"
    /\ request.symbol = "ETHUSDT"
    /\ "BTCUSDT" \in DOMAIN filters
    /\ result = Raise("KeyError")

\* the event the user stream has just delivered is given to on_new_order and
\* converted to an Order
ConvertedAsNew(event) ==
    /\ event.symbol \in Range(settings.symbols_list)
    /\ event.status = "NEW"
    /\ event.source = ORDER_TRADE_UPDATE => event.order_type = <<event.curr_order_type>>
    /\ can_convert_to_order(event)

\* C21: an order event without a price and without a stop price is rejected with
\* an error when it is converted to an Order: the handler raises and no Order is
\* added to the OrderList.
C21_NoPriceRejected ==
    [][(mode = "live_orders" /\ ConvertedAsNew(request'.event[1])
        /\ ~Truthy(request'.event[1].price) /\ ~Truthy(request'.event[1].stop_price)) =>
            /\ ~Returned(result')
            /\ orders' = orders]_vars

\* C22: closing an absent position is a no-op.  In the backtest a closing order
\* met in the filled list while the symbol has no position leaves the balance,
\* the statistics and the positions as they are and the loop goes on; in live
\* trading a position update that reports a closed position (entry price or
\* amount 0) for a symbol without a position leaves every symbol's position list
\* as it is (empty for that symbol), and on_position_update touches no balance.
C22_CloseAbsentNoOp ==
    [][/\ (mode = "backtest" /\ AtOrder /\ positions[Sym] = <<>> /\ Head(filled).type \in ExitTypes) =>
            /\ balance' = balance
            /\ test_results' = test_results
            /\ positions' = positions
            /\ pc' = "loop"
       /\ mode = "live" =>
            \A data \in PositionDatas :
                ((data.ep = 0 \/ data.pa = 0) /\ BookGet(positions, data.s) = <<>>) =>
                    LET book == on_position_update(positions, data, settings.leverage)
                    IN /\ book[data.s] = <<>>
                       /\ \A sym \in DOMAIN positions : book[sym] = positions[sym]]_vars

\* a closing order that is filled on the bar has been met while the symbol had no
\* position (none was opened so far): it is still in the OrderList, nothing was
\* recorded and the balance is the starting one
C22_Witness ==
    /\ mode = "backtest"
    /\ pc = "loop"
    /\ filled = <<>>
    /\ positions[Sym] = <<>>
    /\ Total(test_results[Sym].hit_count) = 0
    /\ Total(test_results[Sym].trade_count) = 0
    /\ balance = Balance(settings.balance)
    /\ \E k \in 1..Len(orders[Sym]) :
         /\ orders[Sym][k].type \in {STOP_MARKET, TAKE_PROFIT_MARKET}
         /\ is_filled(orders[Sym][k], bar.high, bar.low)

\* the tasks inside "async with self.lock"
InLock == {t \in 1..Len(tasks) : tasks[t].pc \in {"locked", "sized", "placed"}}

\* C23: in live trading the sequence read Balance, derive the quantity, place the
\* order runs under Strategy.lock (the lock is held throughout, by one task at a
\* time), and no balance update takes effect between the read and the
\* placement: the balance the quantity was derived from is the balance at the
\* placement, and the order placed has the quantity sized against it.
C23_SizingUnderLock ==
    [][mode = "live_sizing" =>
        /\ InLock # {} => lock.locked
        /\ Cardinality(InLock) <= 1
        /\ \A t \in 1..Len(tasks) :
             /\ (tasks[t].pc = "locked" /\ tasks'[t].pc = "sized") => tasks'[t].balance = <<balance>>
             /\ tasks[t].pc \in {"locked", "sized"} => balance' = balance
             /\ tasks[t].pc = "sized" => tasks[t].balance = <<balance>>
             /\ (tasks[t].pc = "sized" /\ tasks'[t].placed # <<>>) =>
                    \E inexact \in BOOLEAN :
                        tasks'[t].placed[1].quantity =
                            to_entry_quantity(tasks[t].symbol, tasks[t].entry_price, balance', inexact).value]_vars

\* one task has sized and placed its order; a balance update then took effect,
\* and a second task has read the new balance, against which the quantity is 0
C23_Witness ==
    /\ mode = "live_sizing"
    /\ Len(tasks) = 2
    /\ tasks[1].pc = "done" /\ tasks[1].placed # <<>>
    /\ tasks[2].pc = "done" /\ tasks[2].placed = <<>>
    /\ tasks[2].balance # <<>>
    /\ tasks[2].balance # tasks[1].balance

\* C25: after the last bar the flush force-closes a position that is still open
\* at its last known price (a price of the last candle, between its low and its
\* high) and realizes the P&L of that close: the balance receives the margin and
\* the P&L, the result of the symbol records the trade and the P&L, and the
\* position is gone.
C25_FlushRealizesPnl ==
    [][(mode = "flush" /\ pc = "flush" /\ positions[Sym] # <<>>) =>
        \E last_price \in Prices :
            /\ bar.low <= last_price /\ last_price <= bar.high
            /\ LET position == Head(positions[Sym])
                   pnl == simple_pnl(position, last_price)
               IN /\ balance' = balance + initial_margin(position) + pnl
                  /\ test_results'[Sym] =
                        increment_trade_count(increase_pnl(test_results[Sym], pnl), position.side, pnl > 0)
                  /\ positions'[Sym] = <<>>]_vars

\* C26: in the backtest an entry fill adds exactly one to the hit count of the
\* order's side; an exit fill adds exactly one to the trade count of the
\* position's side, one to its win count if and only if the realized P&L is
\* greater than 0, and the realized P&L to the cumulative P&L (profit + loss) of
\* the symbol; every other step leaves the counters of every symbol as they are.
C26_Counters ==
    [][mode = "backtest" =>
        /\ EntryFill =>
              test_results' = [test_results EXCEPT ![Sym].hit_count[Head(filled).side] = @ + 1]
        /\ ExitFill =>
              LET position == Head(positions[Sym])
                  pnl == simple_pnl(position, Head(filled).price)
                  before == test_results[Sym]
                  after == test_results'[Sym]
              IN /\ after.hit_count = before.hit_count
                 /\ after.trade_count = [before.trade_count EXCEPT ![position.side] = @ + 1]
                 /\ after.win_count = [before.win_count EXCEPT
                                          ![position.side] = IF pnl > 0 THEN @ + 1 ELSE @]
                 /\ after.profit + after.loss = before.profit + before.loss + pnl
                 /\ \A sym \in DOMAIN test_results \ {Sym} : test_results'[sym] = test_results[sym]
        /\ (~EntryFill /\ ~ExitFill) => test_results' = test_results]_vars

\* a short position was entered once and closed once, at a loss: no win is counted
C26_Witness ==
    /\ mode = "backtest"
    /\ test_results[Sym].hit_count = [d \in Sides |-> IF d = SELL THEN 1 ELSE 0]
    /\ test_results[Sym].trade_count = [d \in Sides |-> IF d = SELL THEN 1 ELSE 0]
    /\ Total(test_results[Sym].win_count) = 0
    /\ test_results[Sym].loss < 0
    /\ test_results[Sym].profit = 0

\* the list of the symbol holds an order with the id
HasOrder(book, symbol, id) ==
    \E k \in 1..Len(BookGet(book, symbol)) : BookGet(book, symbol)[k].order_id = id

\* C27: in live trading, for every order id, a NEW event adds the order to the
\* OrderList of its symbol; a FILLED, CANCELED or EXPIRED event (an algo
\* TRIGGERED, CANCELED or EXPIRED event) removes it; a PARTIALLY_FILLED event
\* removes nothing; and once the terminal event of an id has been handled no
\* order with that id is in the OrderList, in whatever order the events arrive.
C27_OrderIdLifecycle ==
    [][mode = "live_orders" =>
        LET event == request'.event[1]
        IN /\ ConvertedAsNew(event) =>
                BookGet(orders', event.symbol) = Append(BookGet(orders, event.symbol), to_order(event).value)
           /\ (event.symbol \in Range(settings.symbols_list)
                  /\ event.status \in TerminalStatuses(event.source)) =>
                ~HasOrder(orders', event.symbol, event.order_id)
           /\ event.status = "PARTIALLY_FILLED" => orders' = orders
           /\ \A done \in request'.terminated : ~HasOrder(orders', done[1], done[2])]_vars

\* C28: when several orders of a symbol are filled on the same bar, the backtest
\* processes every filled LIMIT order before any filled STOP_MARKET or
\* TAKE_PROFIT_MARKET order, whatever the order in which they were added: in the
\* list _eval_orders iterates over no exit order precedes a LIMIT order.
C28_EntriesBeforeExits ==
    mode = "backtest" =>
        \A j \in 1..Len(filled), k \in 1..Len(filled) :
            (j < k /\ filled[j].type \in {STOP_MARKET, TAKE_PROFIT_MARKET}) => filled[k].type # LIMIT

\* C29: within one bar a position is closed at most once: the exit order that
\* closes the position ends the fill-matching of the bar (no filled order is left
\* to process, also when the stop-loss and the take-profit are both filled), and
\* the step that follows the fill-matching changes neither the position nor the
\* balance nor the statistics.
C29_ClosedOncePerBar ==
    [][mode = "backtest" =>
        /\ ExitFill => (pc' = "loop" /\ filled' = <<>>)
        /\ BarProcessed =>
              /\ pc' # "loop"
              /\ positions' = positions
              /\ balance' = balance
              /\ test_results' = test_results]_vars

\* the stop-loss and the take-profit of an open position are both filled on the
\* bar, and the first of them is about to close the position
C29_Witness ==
    /\ mode = "backtest"
    /\ ExitFill
    /\ Len(filled) >= 2
    /\ {filled[1].type, filled[2].type} = {STOP_MARKET, TAKE_PROFIT_MARKET}

\* C30: on every bar and for every symbol the backtest first expires the
\* time-based orders, then invokes the strategy, then runs the fill-matching: a
\* bar begins with the expiry, the step after the expiry is the strategy
\* invocation and the step after the strategy invocation is the fill-matching.
C30_StepOrder ==
    [][mode = "backtest" =>
        /\ (pc = "loop" /\ pc' \notin {"loop", "flush"}) => pc' = "expire"
        /\ pc = "expire" => pc' = "strategy"
        /\ pc = "strategy" => pc' = "eval"]_vars

\* the run is over: every bar has been processed and every symbol flushed
Done == mode = "backtest" /\ pc = "done"

C32_PnlRulesAgree ==
    (mode = "backtest" /\ ExitFill /\ Head(filled).type \in {STOP_MARKET, TAKE_PROFIT_MARKET}) =>
        pnl_backtest(Head(positions[Sym]), Head(filled)) = simple_pnl(Head(positions[Sym]), Head(filled).price)

RECURSIVE OpenMargin(_)
\* the sum of initial_margin over the open positions of the first k symbols
OpenMargin(k) ==
    IF k = 0 THEN 0 ELSE margins(positions[settings.symbols_list[k]]) + OpenMargin(k - 1)

RECURSIVE RealizedPnl(_)
\* the sum of the realized P&L recorded in the results of the first k symbols
RealizedPnl(k) ==
    IF k = 0 THEN 0
    ELSE test_results[settings.symbols_list[k]].profit + test_results[settings.symbols_list[k]].loss
         + RealizedPnl(k - 1)

\* C33: in the backtest, wherever the strategy is invoked, after every bar and
\* after the flush, the balance plus the initial margins of the open positions is
\* the initial balance plus the realized P&L recorded in the results of all
\* symbols: the strategy sees no margin debit without its position and no
\* position without its margin debit.
C33_BalanceConservation ==
    (mode = "backtest" /\ (pc = "strategy" \/ BarProcessed \/ Done)) =>
        balance + OpenMargin(Len(settings.symbols_list))
            = Balance(settings.balance) + RealizedPnl(Len(settings.symbols_list))

\* the strategy is invoked while one symbol has a position open, its margin
\* debited, and the other has realized a P&L
C33_Witness ==
    /\ mode = "backtest"
    /\ pc = "strategy"
    /\ \E sym \in Range(settings.symbols_list), other \in Range(settings.symbols_list) :
         /\ sym # other
         /\ positions[sym] # <<>>
         /\ test_results[other].profit + test_results[other].loss # 0
    /\ balance < Balance(settings.balance)

\* the number of open positions of the symbol with the side (0 or 1)
OpenCount(sym, side) == Cardinality({k \in 1..Len(positions[sym]) : positions[sym][k].side = side})

\* C34: after every bar of the backtest loop, for every symbol and side,
\* win_count <= trade_count <= hit_count, and hit_count - trade_count is the
\* number of positions of the symbol and side that are open.
C34_CounterOrder ==
    BarProcessed =>
        \A sym \in Range(settings.symbols_list), side \in Sides :
            LET r == test_results[sym]
            IN /\ r.win_count[side] <= r.trade_count[side]
               /\ r.trade_count[side] <= r.hit_count[side]
               /\ r.hit_count[side] - r.trade_count[side] = OpenCount(sym, side)

\* a bar has been processed on which a symbol opened its second position of a
\* side, after a first one that was closed with a profit
C34_Witness ==
    /\ BarProcessed
    /\ \E sym \in Range(settings.symbols_list), side \in Sides :
         /\ test_results[sym].hit_count[side] = 2
         /\ test_results[sym].trade_count[side] = 1
         /\ test_results[sym].win_count[side] = 1
         /\ OpenCount(sym, side) = 1

\* C35: in a backtest whose entry orders are all sized by to_entry_quantity from
\* the balance at the time they are placed (size fraction <= 1), the balance is
\* not negative after an entry fill has debited its margin, for several symbols
\* sharing the balance and any gap between placing an order and its fill.
C35_SizedEntryKeepsBalance ==
    [][(mode = "backtest_sized" /\ EntryFill) => balance' >= 0]_vars

\* C36: the expiry step of the backtest does not strip an open position of its
\* exit orders: while the symbol has a position, every STOP_MARKET and
\* TAKE_PROFIT_MARKET order of the symbol that is in the OrderList before
\* _expire_orders is in it afterwards, whatever other orders the list holds.
C36_ExpiryKeepsExitOrders ==
    [][(mode = "backtest" /\ pc = "expire" /\ positions[Sym] # <<>>) =>
        \A k \in 1..Len(orders[Sym]) :
            orders[Sym][k].type \in {STOP_MARKET, TAKE_PROFIT_MARKET} =>
                \E j \in 1..Len(orders'[Sym]) : orders'[Sym][j] = orders[Sym][k]]_vars

\* the step delivers an ORDER_TRADE_UPDATE event of status FILLED for an order of
\* a configured symbol
FilledDelivered ==
    /\ mode = "live_stream"
    /\ request'.handled = request.handled + 1
    /\ request'.event # <<>>
    /\ request'.event[1].source = ORDER_TRADE_UPDATE
    /\ request'.event[1].status = "FILLED"
    /\ request'.event[1].symbol \in Range(settings.symbols_list)

\* C37: in live trading the realized profit reported when the FILLED event of an
\* order is handled is the sum of the realized profits of the order's own
\* PARTIALLY_FILLED and FILLED events, however the fill events of other orders of
\* the symbol are interleaved with them, and the accumulator of the symbol is 0
\* after the FILLED event.
C37_ReportedProfitIsOwn ==
    [][FilledDelivered =>
        LET event == request'.event[1]
        IN /\ request'.reported = <<request.own[<<event.symbol, event.order_id>>] + profit_of(event)>>
           /\ realized_profit'[event.symbol] = 0]_vars

\* the step delivers an event that is about symbols outside settings.symbols_list
\* only: an order or algo event of such a symbol, or an ACCOUNT_UPDATE whose
\* positions are all of such symbols
UnknownDelivered ==
    /\ mode = "live_stream"
    /\ request'.handled = request.handled + 1
    /\ request'.event # <<>>
    /\ LET event == request'.event[1]
       IN IF event.source = "ACCOUNT_UPDATE"
          THEN /\ event.P # <<>>
               /\ \A k \in 1..Len(event.P) : event.P[k].s \notin Range(settings.symbols_list)
          ELSE event.symbol \notin Range(settings.symbols_list)

\* C38: a live ORDER_TRADE_UPDATE, ALGO_UPDATE or ACCOUNT_UPDATE event for a
\* symbol that is not in the configured symbol list leaves the order book, the
\* position book and the realized-profit accumulators as they were: no entry is
\* added, removed or created for the symbol.
C38_UnknownSymbolIgnored ==
    [][UnknownDelivered =>
        /\ orders' = orders
        /\ positions' = positions
        /\ realized_profit' = realized_profit]_vars

\* C39: for a positive entry price, ratio, leverage and tick size
\* calculate_stop_price returns a price below the entry price for a stop-loss that
\* closes a long (SELL) and a take-profit that closes a short (BUY), and a price
\* above the entry price for a stop-loss that closes a short (BUY) and a
\* take-profit that closes a long (SELL).
C39_StopPriceSide ==
    (/\ mode = "exchange_info"
     /\ request.name = "to_entry_price"
     /\ request.symbol \in DOMAIN filters
     /\ filters[request.symbol].tick_size > 0
     /\ request.initial_price > 0) =>
        \A ratio \in {settings.stop_loss_ratio, settings.take_profit_ratio}, up \in BOOLEAN :
            LET entry_price == request.initial_price
                stop_price(order_type, stop_side) ==
                    calculate_stop_price(request.symbol, entry_price, order_type, stop_side, ratio, up).value
            IN /\ stop_price(STOP_MARKET, SELL) < entry_price
               /\ stop_price(TAKE_PROFIT_MARKET, BUY) < entry_price
               /\ stop_price(STOP_MARKET, BUY) > entry_price
               /\ stop_price(TAKE_PROFIT_MARKET, SELL) > entry_price

====
